---- MODULE Spec2Model ----
(***************************************************************************)
(* Model of the product service of pelyams/simpler_go_service: the         *)
(* ResourseService orchestration layer (internal/service), the Redis cache *)
(* adapter (internal/adapters/cache) and the Postgres repository adapter   *)
(* (internal/adapters/repository), over an abstract products table and an  *)
(* abstract Redis keyspace.                                                *)
(*                                                                         *)
(* Go values are modelled as follows.  A pointer (to a domain.Product or   *)
(* a domain.ServiceError) is a sequence of length 0 (nil) or 1 (the value  *)
(* pointed to).  A []byte is a sequence of strings, nil being <<>>.  An    *)
(* error is a record naming the sentinel it wraps (errors.Is), the adapter *)
(* call that built it and the id formatted into its message.  Every        *)
(* backend call takes a flag `fault`: the client library returned an error *)
(* other than "no such key / no such row" (connection lost; for the cache, *)
(* also a cancelled context); a faulted call leaves the backend as it was. *)
(***************************************************************************)
EXTENDS Integers, Sequences, FiniteSets, TLC

VARIABLES db, seq, cache, last, prev, reqs, tx, http, ctx, logger

vars == <<db, seq, cache, last, prev, reqs, tx, http, ctx, logger>>

-----------------------------------------------------------------------------
(* Bounds *)

\* the largest id the products table's id sequence hands out
MaxId == 2

\* the payloads callers submit (domain.NewProduct)
NewProducts ==
    { [Name |-> "A", AdditionalInfo |-> "infoA"],
      [Name |-> "B", AdditionalInfo |-> "infoB"] }

\* the ids callers ask for: 0 is never assigned by the store
ReqIds == 0..MaxId

\* the number of requests the server handles at the same time
NReq == 2

-----------------------------------------------------------------------------
(* Go values *)

NilPtr == <<>>

Ref(v) == <<v>>

Deref(p) == p[1]

NilBytes == <<>>

\* errors.New sentinels of internal/domain
ErrNotFound == "product not found"

ErrInvalidInput == "invalid input"

ErrInternalDb == "internal database error"

ErrInternalCache == "internal cache error"

\* the nil error
Nil == [is |-> "", at |-> "", id |-> 0]

\* fmt.Errorf("%w: <at> ...", sentinel, id)
Errorf(sentinel, at, id) == [is |-> sentinel, at |-> at, id |-> id]

\* errors.Is(e, sentinel)
ErrorsIs(e, sentinel) == e.is = sentinel

\* finite maps (table rows by id, Redis values by key)
EmptyMap == <<>>

Put(m, k, v) == [x \in (DOMAIN m) \cup {k} |-> IF x = k THEN v ELSE m[x]]

Del(m, k) == [x \in (DOMAIN m) \ {k} |-> m[x]]

\* %d: the decimal digits of a non-negative integer
Digit == <<"0", "1", "2", "3", "4", "5", "6", "7", "8", "9">>

RECURSIVE Itoa(_)
Itoa(n) == IF n < 10 THEN <<Digit[n + 1]>>
           ELSE Itoa(n \div 10) \o <<Digit[(n % 10) + 1]>>

\* json.Marshal of a domain.Product: field order and tags of the struct
json_Marshal(p) ==
    [ data |-> <<"{\"id\":">> \o Itoa(p.Id)
               \o <<",\"name\":\"", p.Name,
                    "\",\"additionalInfo\":\"", p.AdditionalInfo, "\"}">>,
      err  |-> Nil ]

-----------------------------------------------------------------------------
(* internal/domain *)

\* a constructor that loses the non-critical list
NewServiceError_DropNonCritical(critical, nonCritical) ==
    Ref([CriticalError |-> critical, NonCriticalErrors |-> <<>>])

\* a constructor that returns no result unless there is a critical error
NewServiceError_NilWithoutCritical(critical, nonCritical) ==
    IF critical = Nil THEN NilPtr
    ELSE Ref([CriticalError |-> critical, NonCriticalErrors |-> nonCritical])

\* a constructor that keeps only the first non-critical error
NewServiceError_FirstNonCritical(critical, nonCritical) ==
    Ref([CriticalError |-> critical,
         NonCriticalErrors |-> IF nonCritical = <<>> THEN <<>>
                               ELSE <<nonCritical[1]>>])

\* a constructor that stores the non-critical errors latest first
NewServiceError_Reversed(critical, nonCritical) ==
    Ref([CriticalError |-> critical,
         NonCriticalErrors |-> [i \in DOMAIN nonCritical |->
                                    nonCritical[Len(nonCritical) + 1 - i]]])

\* a constructor that lists the critical error among the non-critical ones too
NewServiceError_CriticalAlsoListed(critical, nonCritical) ==
    Ref([CriticalError |-> critical,
         NonCriticalErrors |-> IF critical = Nil THEN nonCritical
                               ELSE Append(nonCritical, critical)])

NewServiceError(critical, nonCritical) ==
    Ref([CriticalError |-> critical, NonCriticalErrors |-> nonCritical])

\* err.Error() of an adapter's error: the sentinel's text, ": " and the
\* adapter's text with the id it formats into it.  A text is a sequence of
\* pieces, the line break "\n" being a piece of its own.
error_Error(e) == <<e.is, ": ", e.at, " ">> \o Itoa(e.id)

\* the "%s\n" of every error of a list, in list order
RECURSIVE WriteErrors(_)
WriteErrors(errs) ==
    IF errs = <<>> THEN <<>>
    ELSE error_Error(Head(errs)) \o <<"\n">> \o WriteErrors(Tail(errs))

\* a rendering that writes the critical error before the non-critical ones
ServiceError_Error_CriticalFirst(se) ==
    <<"Service error(s)", "\n", ":">>
        \o (IF se.CriticalError # Nil THEN WriteErrors(<<se.CriticalError>>) ELSE <<>>)
        \o WriteErrors(se.NonCriticalErrors)

\* a rendering that marks the critical error's line
ServiceError_Error_MarksCritical(se) ==
    <<"Service error(s)", "\n", ":">>
        \o WriteErrors(se.NonCriticalErrors)
        \o (IF se.CriticalError # Nil
            THEN <<"critical: ">> \o WriteErrors(<<se.CriticalError>>)
            ELSE <<>>)

\* (se *ServiceError) Error()
ServiceError_Error(se) ==
    <<"Service error(s)", "\n", ":">>
        \o WriteErrors(se.NonCriticalErrors)
        \o (IF se.CriticalError # Nil THEN WriteErrors(<<se.CriticalError>>) ELSE <<>>)

-----------------------------------------------------------------------------
(* internal/adapters/cache: RedisCache over the keyspace c *)

createKey(id) == <<"product:">> \o Itoa(id)

\* a SetProduct that reports success without writing the key
RedisCache_SetProduct_NoWrite(c, product, fault) ==
    IF fault
    THEN [cache |-> c, err |-> Errorf(ErrInternalCache, "failed to store product to cache", 0)]
    ELSE [cache |-> c, err |-> Nil]

\* a SetProduct that stores the product as a json.Encoder writes it, with a
\* line break after the object
RedisCache_SetProduct_EncoderNewline(c, product, fault) ==
    LET key  == createKey(product.Id)
        m    == json_Marshal(product)
    IN  IF m.err # Nil
        THEN [cache |-> c, err |-> Errorf(ErrInternalCache, "error marshalling product", 0)]
        ELSE IF fault
        THEN [cache |-> c, err |-> Errorf(ErrInternalCache, "failed to store product to cache", 0)]
        ELSE [cache |-> Put(c, key, m.data \o <<"\n">>), err |-> Nil]

RedisCache_SetProduct(c, product, fault) ==
    LET key  == createKey(product.Id)
        m    == json_Marshal(product)
    IN  IF m.err # Nil
        THEN [cache |-> c, err |-> Errorf(ErrInternalCache, "error marshalling product", 0)]
        ELSE IF fault
        THEN [cache |-> c, err |-> Errorf(ErrInternalCache, "failed to store product to cache", 0)]
        ELSE [cache |-> Put(c, key, m.data), err |-> Nil]

\* a GetJSONProductById that treats every reply as redis.Nil
RedisCache_GetJSONProductById_AlwaysMiss(c, id, fault) ==
    IF fault
    THEN [data |-> NilBytes, err |-> Errorf(ErrInternalCache, "failed to get product from cache", id)]
    ELSE [data |-> NilBytes, err |-> Errorf(ErrNotFound, "failed to find product in cache", id)]

RedisCache_GetJSONProductById(c, id, fault) ==
    LET key == createKey(id)
    IN  IF fault
        THEN [data |-> NilBytes, err |-> Errorf(ErrInternalCache, "failed to get product from cache", id)]
        ELSE IF key \notin DOMAIN c
        THEN [data |-> NilBytes, err |-> Errorf(ErrNotFound, "failed to find product in cache", id)]
        ELSE [data |-> c[key], err |-> Nil]

\* a DeleteProductById that reports success without removing the key
RedisCache_DeleteProductById_NoDelete(c, id, fault) ==
    LET key == createKey(id)
    IN  IF fault
        THEN [cache |-> c, err |-> Errorf(ErrInternalCache, "failed to delete product from cache", id)]
        ELSE IF key \notin DOMAIN c
        THEN [cache |-> c, err |-> Errorf(ErrNotFound, "product not found in cache", id)]
        ELSE [cache |-> c, err |-> Nil]

\* a DeleteProductById that removes the key although it reports a failure
RedisCache_DeleteProductById_DeletesOnFault(c, id, fault) ==
    LET key == createKey(id)
    IN  IF fault
        THEN [cache |-> Del(c, key),
              err |-> Errorf(ErrInternalCache, "failed to delete product from cache", id)]
        ELSE IF key \notin DOMAIN c
        THEN [cache |-> c, err |-> Errorf(ErrNotFound, "product not found in cache", id)]
        ELSE [cache |-> Del(c, key), err |-> Nil]

RedisCache_DeleteProductById(c, id, fault) ==
    LET key == createKey(id)
    IN  IF fault
        THEN [cache |-> c, err |-> Errorf(ErrInternalCache, "failed to delete product from cache", id)]
        ELSE IF key \notin DOMAIN c
        THEN [cache |-> c, err |-> Errorf(ErrNotFound, "product not found in cache", id)]
        ELSE [cache |-> Del(c, key), err |-> Nil]

\* a ClearCache that reports success without flushing the keyspace
RedisCache_ClearCache_NoFlush(c, fault) ==
    IF fault
    THEN [cache |-> c, err |-> Errorf(ErrInternalCache, "failed to clear cache", 0)]
    ELSE [cache |-> c, err |-> Nil]

RedisCache_ClearCache(c, fault) ==
    IF fault
    THEN [cache |-> c, err |-> Errorf(ErrInternalCache, "failed to clear cache", 0)]
    ELSE [cache |-> EmptyMap, err |-> Nil]

-----------------------------------------------------------------------------
(* internal/adapters/repository: PostgresRepository over the table t       *)
(* (id -> row) and the id sequence q (the next id INSERT assigns)          *)

Row(np) == [name |-> np.Name, additional_info |-> np.AdditionalInfo]

Scan(id, row) == [Id |-> id, Name |-> row.name, AdditionalInfo |-> row.additional_info]

\* a GetProduct that does not tell sql.ErrNoRows from other errors
PostgresRepository_GetProduct_NoRowsInternal(t, id, fault) ==
    IF fault \/ id \notin DOMAIN t
    THEN [product |-> NilPtr, err |-> Errorf(ErrInternalDb, "failed to get product", id)]
    ELSE [product |-> Ref(Scan(id, t[id])), err |-> Nil]

PostgresRepository_GetProduct(t, id, fault) ==
    IF fault
    THEN [product |-> NilPtr, err |-> Errorf(ErrInternalDb, "failed to get product", id)]
    ELSE IF id \notin DOMAIN t
    THEN [product |-> NilPtr, err |-> Errorf(ErrNotFound, "failed to find product in DB", id)]
    ELSE [product |-> Ref(Scan(id, t[id])), err |-> Nil]

\* a StoreProduct whose INSERT takes effect although the call reports an error
PostgresRepository_StoreProduct_InsertsOnFault(t, q, product, fault) ==
    [id |-> IF fault THEN 0 ELSE q,
     err |-> IF fault THEN Errorf(ErrInternalDb, "failed to store product", 0) ELSE Nil,
     db |-> Put(t, q, Row(product)), seq |-> q + 1]

PostgresRepository_StoreProduct(t, q, product, fault) ==
    IF fault
    THEN [id |-> 0, err |-> Errorf(ErrInternalDb, "failed to store product", 0), db |-> t, seq |-> q]
    ELSE [id |-> q, err |-> Nil, db |-> Put(t, q, Row(product)), seq |-> q + 1]

\* an UpdateProductById whose RETURNING clause yields the updated columns
PostgresRepository_UpdateProductById_ReturnsNew(t, id, product, fault) ==
    IF fault
    THEN [product |-> NilPtr, err |-> Errorf(ErrInternalDb, "failed to update product", id), db |-> t]
    ELSE IF id \notin DOMAIN t
    THEN [product |-> NilPtr, err |-> Errorf(ErrNotFound, "failed to find product in DB", id), db |-> t]
    ELSE [product |-> Ref(Scan(id, Row(product))), err |-> Nil, db |-> Put(t, id, Row(product))]

PostgresRepository_UpdateProductById(t, id, product, fault) ==
    IF fault
    THEN [product |-> NilPtr, err |-> Errorf(ErrInternalDb, "failed to update product", id), db |-> t]
    ELSE IF id \notin DOMAIN t
    THEN [product |-> NilPtr, err |-> Errorf(ErrNotFound, "failed to find product in DB", id), db |-> t]
    ELSE [product |-> Ref(Scan(id, t[id])), err |-> Nil, db |-> Put(t, id, Row(product))]

\* a DeleteProductById that reports no error when no row matched
PostgresRepository_DeleteProductById_NoRowsNil(t, id, fault) ==
    IF fault
    THEN [product |-> NilPtr, err |-> Errorf(ErrInternalDb, "failed to delete product", id), db |-> t]
    ELSE IF id \notin DOMAIN t
    THEN [product |-> NilPtr, err |-> Nil, db |-> t]
    ELSE [product |-> Ref(Scan(id, t[id])), err |-> Nil, db |-> Del(t, id)]

PostgresRepository_DeleteProductById(t, id, fault) ==
    IF fault
    THEN [product |-> NilPtr, err |-> Errorf(ErrInternalDb, "failed to delete product", id), db |-> t]
    ELSE IF id \notin DOMAIN t
    THEN [product |-> NilPtr, err |-> Errorf(ErrNotFound, "failed to find product in DB", id), db |-> t]
    ELSE [product |-> Ref(Scan(id, t[id])), err |-> Nil, db |-> Del(t, id)]

\* the orders in which a SELECT without ORDER BY may yield the rows of t
RowOrders(t) ==
    { o \in [1..Cardinality(DOMAIN t) -> DOMAIN t] :
        \A i, j \in DOMAIN o : o[i] = o[j] => i = j }

\* rows.Next / rows.Scan over the rows in the order the query yields them;
\* a []domain.Product is a pointer to its elements, nil being NilPtr
ScanRows(t, order) == [i \in DOMAIN order |-> Scan(order[i], t[order[i]])]

\* LIMIT $1 OFFSET $2 over the rows in the order the query yields them
LimitOffset(rows, limit, offset) ==
    LET first == offset + 1
        end   == IF offset + limit < Len(rows) THEN offset + limit ELSE Len(rows)
    IN  IF first > end THEN <<>> ELSE SubSeq(rows, first, end)

PostgresRepository_GetAllProducts(t, order, fault) ==
    IF fault
    THEN [products |-> NilPtr, err |-> Errorf(ErrInternalDb, "failed to get all products", 0)]
    ELSE [products |-> Ref(ScanRows(t, order)), err |-> Nil]

PostgresRepository_GetProductsPaged(t, order, limit, offset, fault) ==
    IF fault
    THEN [products |-> NilPtr, err |-> Errorf(ErrInternalDb, "failed to get paginated products", 0)]
    ELSE [products |-> Ref(LimitOffset(ScanRows(t, order), limit, offset)), err |-> Nil]

\* the four statements of the transaction; failAt names the one that fails
\* (0: none).  The deferred tx.Rollback() undoes the TRUNCATE of a
\* transaction that did not commit.
TxSteps == <<"failed to start transaction", "failed to count rows",
             "failed to truncate table", "failed to commit transaction">>

\* a DeleteAllProducts without the deferred rollback: a TRUNCATE that ran
\* before the failing statement stays
PostgresRepository_DeleteAllProducts_NoRollback(t, failAt) ==
    IF failAt # 0
    THEN [count |-> 0, err |-> Errorf(ErrInternalDb, TxSteps[failAt], 0),
          db |-> IF failAt > 3 THEN EmptyMap ELSE t]
    ELSE [count |-> Cardinality(DOMAIN t), err |-> Nil, db |-> EmptyMap]

\* a DeleteAllProducts that counts the rows and commits without removing them
PostgresRepository_DeleteAllProducts_NoTruncate(t, failAt) ==
    IF failAt # 0
    THEN [count |-> 0, err |-> Errorf(ErrInternalDb, TxSteps[failAt], 0), db |-> t]
    ELSE [count |-> Cardinality(DOMAIN t), err |-> Nil, db |-> t]

PostgresRepository_DeleteAllProducts(t, failAt) ==
    IF failAt # 0
    THEN [count |-> 0, err |-> Errorf(ErrInternalDb, TxSteps[failAt], 0), db |-> t]
    ELSE [count |-> Cardinality(DOMAIN t), err |-> Nil, db |-> EmptyMap]

-----------------------------------------------------------------------------
(* internal/service: ResourseService.  s is the state of the two backends, *)
(* [db, seq, cache]; f holds the fault flag of every backend call the      *)
(* operation can make.  The result is what the method returns (value,      *)
(* err), the backend calls it made in order (calls) and the backends after *)
(* the call.                                                               *)

Call(fn, id) == [fn |-> fn, id |-> id]

\* a hit test that never takes the fast path
cacheHit_Never(cacheErr) == FALSE

\* GetProductById: `if cacheErr == nil`, the cache served the request
cacheHit(cacheErr) == cacheErr = Nil

\* an invalidation that demotes no cache error, and one that demotes all
isDemoted_Never(cacheErr) == FALSE

isDemoted_Always(cacheErr) == TRUE

\* UpdateProductById, DeleteProductById: `if errors.Is(cacheErr,
\* domain.ErrNotFound)`, the invalidation error is kept as non-critical
isDemoted(cacheErr) == ErrorsIs(cacheErr, ErrNotFound)

Ret(value, err, calls, t, q, c) ==
    [value |-> value, err |-> err, calls |-> calls, db |-> t, seq |-> q, cache |-> c]

\* GetProductById when json.Marshal(dbRes) returns err: the wrapped error is
\* appended to the non-critical errors and is the critical error as well
GetProductById_marshalFailed(nonCriticalErrors, err) ==
    LET marshallingErr == Errorf(err.is, "service layer error", 0)
    IN  NewServiceError(marshallingErr, Append(nonCriticalErrors, marshallingErr))

ResourseService_GetProductById(s, id, f) ==
    LET cacheGet == RedisCache_GetJSONProductById(s.cache, id, f.cacheGet)
        k1       == <<Call("cache.GetJSONProductById", id)>>
    IN  IF cacheHit(cacheGet.err)
        THEN Ret(cacheGet.data, NilPtr, k1, s.db, s.seq, s.cache)
        ELSE
        LET nonCritical1 == <<cacheGet.err>>
            dbGet        == PostgresRepository_GetProduct(s.db, id, f.dbGet)
            k2           == Append(k1, Call("db.GetProduct", id))
        IN  IF dbGet.err # Nil
            THEN Ret(NilBytes, NewServiceError(dbGet.err, nonCritical1), k2,
                     s.db, s.seq, s.cache)
            ELSE
            LET dbRes        == Deref(dbGet.product)
                cacheSet     == RedisCache_SetProduct(s.cache, dbRes, f.cacheSet)
                k3           == Append(k2, Call("cache.SetProduct", dbRes.Id))
                nonCritical2 == IF cacheSet.err # Nil
                                THEN Append(nonCritical1, cacheSet.err)
                                ELSE nonCritical1
                res          == json_Marshal(dbRes)
            IN  IF res.err # Nil
                THEN Ret(NilBytes, GetProductById_marshalFailed(nonCritical2, res.err),
                         k3, s.db, s.seq, cacheSet.cache)
                ELSE IF nonCritical2 # <<>>
                THEN Ret(res.data, NewServiceError(Nil, nonCritical2), k3,
                         s.db, s.seq, cacheSet.cache)
                ELSE Ret(res.data, NilPtr, k3, s.db, s.seq, cacheSet.cache)

ResourseService_GetAllProducts(s, order, f) ==
    LET dbList == PostgresRepository_GetAllProducts(s.db, order, f.dbList)
        k1     == <<Call("db.GetAllProducts", 0)>>
    IN  IF dbList.err # Nil
        THEN Ret(NilPtr, NewServiceError(dbList.err, <<>>), k1, s.db, s.seq, s.cache)
        ELSE Ret(dbList.products, NilPtr, k1, s.db, s.seq, s.cache)

\* a paged listing that demotes the store's error
ResourseService_GetProductsPaged_DemotesStoreError(s, order, limit, offset, f) ==
    LET dbList == PostgresRepository_GetProductsPaged(s.db, order, limit, offset, f.dbList)
        k1     == <<Call("db.GetProductsPaged", 0)>>
    IN  IF dbList.err # Nil
        THEN Ret(NilPtr, NewServiceError(Nil, <<dbList.err>>), k1, s.db, s.seq, s.cache)
        ELSE Ret(dbList.products, NilPtr, k1, s.db, s.seq, s.cache)

ResourseService_GetProductsPaged(s, order, limit, offset, f) ==
    LET dbList == PostgresRepository_GetProductsPaged(s.db, order, limit, offset, f.dbList)
        k1     == <<Call("db.GetProductsPaged", 0)>>
    IN  IF dbList.err # Nil
        THEN Ret(NilPtr, NewServiceError(dbList.err, <<>>), k1, s.db, s.seq, s.cache)
        ELSE Ret(dbList.products, NilPtr, k1, s.db, s.seq, s.cache)

\* a CreateProduct that caches the payload without the id the store assigned
ResourseService_CreateProduct_CachesUnsaved(s, product, f) ==
    LET dbStore == PostgresRepository_StoreProduct(s.db, s.seq, product, f.dbStore)
        k1      == <<Call("db.StoreProduct", 0)>>
    IN  IF dbStore.err # Nil
        THEN Ret(0, NewServiceError(dbStore.err, <<>>), k1, dbStore.db, dbStore.seq, s.cache)
        ELSE
        LET newlyStoredProduct == [Id |-> 0, Name |-> product.Name,
                                   AdditionalInfo |-> product.AdditionalInfo]
            cacheSet == RedisCache_SetProduct(s.cache, newlyStoredProduct, f.cacheSet)
            k2       == Append(k1, Call("cache.SetProduct", newlyStoredProduct.Id))
        IN  IF cacheSet.err # Nil
            THEN Ret(dbStore.id, NewServiceError(Nil, <<cacheSet.err>>), k2,
                     dbStore.db, dbStore.seq, cacheSet.cache)
            ELSE Ret(dbStore.id, NilPtr, k2, dbStore.db, dbStore.seq, cacheSet.cache)

\* a CreateProduct that passes the cache error as the critical one
ResourseService_CreateProduct_CacheErrAsCritical(s, product, f) ==
    LET dbStore == PostgresRepository_StoreProduct(s.db, s.seq, product, f.dbStore)
        k1      == <<Call("db.StoreProduct", 0)>>
    IN  IF dbStore.err # Nil
        THEN Ret(0, NewServiceError(dbStore.err, <<>>), k1, dbStore.db, dbStore.seq, s.cache)
        ELSE
        LET newlyStoredProduct == [Id |-> dbStore.id, Name |-> product.Name,
                                   AdditionalInfo |-> product.AdditionalInfo]
            cacheSet == RedisCache_SetProduct(s.cache, newlyStoredProduct, f.cacheSet)
            k2       == Append(k1, Call("cache.SetProduct", newlyStoredProduct.Id))
        IN  IF cacheSet.err # Nil
            THEN Ret(dbStore.id, NewServiceError(cacheSet.err, <<>>), k2,
                     dbStore.db, dbStore.seq, cacheSet.cache)
            ELSE Ret(dbStore.id, NilPtr, k2, dbStore.db, dbStore.seq, cacheSet.cache)

\* a CreateProduct that gives up the id when the cache write fails
ResourseService_CreateProduct_CacheCritical(s, product, f) ==
    LET dbStore == PostgresRepository_StoreProduct(s.db, s.seq, product, f.dbStore)
        k1      == <<Call("db.StoreProduct", 0)>>
    IN  IF dbStore.err # Nil
        THEN Ret(0, NewServiceError(dbStore.err, <<>>), k1, dbStore.db, dbStore.seq, s.cache)
        ELSE
        LET newlyStoredProduct == [Id |-> dbStore.id, Name |-> product.Name,
                                   AdditionalInfo |-> product.AdditionalInfo]
            cacheSet == RedisCache_SetProduct(s.cache, newlyStoredProduct, f.cacheSet)
            k2       == Append(k1, Call("cache.SetProduct", newlyStoredProduct.Id))
        IN  IF cacheSet.err # Nil
            THEN Ret(0, NewServiceError(cacheSet.err, <<>>), k2,
                     dbStore.db, dbStore.seq, cacheSet.cache)
            ELSE Ret(dbStore.id, NilPtr, k2, dbStore.db, dbStore.seq, cacheSet.cache)

ResourseService_CreateProduct(s, product, f) ==
    LET dbStore == PostgresRepository_StoreProduct(s.db, s.seq, product, f.dbStore)
        k1      == <<Call("db.StoreProduct", 0)>>
    IN  IF dbStore.err # Nil
        THEN Ret(0, NewServiceError(dbStore.err, <<>>), k1, dbStore.db, dbStore.seq, s.cache)
        ELSE
        LET newlyStoredProduct == [Id |-> dbStore.id, Name |-> product.Name,
                                   AdditionalInfo |-> product.AdditionalInfo]
            cacheSet == RedisCache_SetProduct(s.cache, newlyStoredProduct, f.cacheSet)
            k2       == Append(k1, Call("cache.SetProduct", newlyStoredProduct.Id))
        IN  IF cacheSet.err # Nil
            THEN Ret(dbStore.id, NewServiceError(Nil, <<cacheSet.err>>), k2,
                     dbStore.db, dbStore.seq, cacheSet.cache)
            ELSE Ret(dbStore.id, NilPtr, k2, dbStore.db, dbStore.seq, cacheSet.cache)

ResourseService_UpdateProductById(s, id, product, f) ==
    LET cacheDel == RedisCache_DeleteProductById(s.cache, id, f.cacheDel)
        k1       == <<Call("cache.DeleteProductById", id)>>
    IN  IF cacheDel.err # Nil /\ ~isDemoted(cacheDel.err)
        THEN Ret(NilPtr, NewServiceError(cacheDel.err, <<>>), k1,
                 s.db, s.seq, cacheDel.cache)
        ELSE
        LET nonCritical == IF cacheDel.err # Nil THEN <<cacheDel.err>> ELSE <<>>
            dbUpd       == PostgresRepository_UpdateProductById(s.db, id, product, f.dbUpd)
            k2          == Append(k1, Call("db.UpdateProductById", id))
        IN  IF dbUpd.err # Nil
            THEN Ret(NilPtr, NewServiceError(dbUpd.err, nonCritical), k2,
                     dbUpd.db, s.seq, cacheDel.cache)
            ELSE IF nonCritical # <<>>
            THEN Ret(dbUpd.product, NewServiceError(Nil, nonCritical), k2,
                     dbUpd.db, s.seq, cacheDel.cache)
            ELSE Ret(dbUpd.product, NilPtr, k2, dbUpd.db, s.seq, cacheDel.cache)

ResourseService_DeleteProductById(s, id, f) ==
    LET cacheDel == RedisCache_DeleteProductById(s.cache, id, f.cacheDel)
        k1       == <<Call("cache.DeleteProductById", id)>>
    IN  IF cacheDel.err # Nil /\ ~isDemoted(cacheDel.err)
        THEN Ret(NilPtr, NewServiceError(cacheDel.err, <<>>), k1,
                 s.db, s.seq, cacheDel.cache)
        ELSE
        LET nonCritical == IF cacheDel.err # Nil THEN <<cacheDel.err>> ELSE <<>>
            dbDel       == PostgresRepository_DeleteProductById(s.db, id, f.dbDel)
            k2          == Append(k1, Call("db.DeleteProductById", id))
        IN  IF dbDel.err # Nil
            THEN Ret(NilPtr, NewServiceError(dbDel.err, nonCritical), k2,
                     dbDel.db, s.seq, cacheDel.cache)
            ELSE IF nonCritical # <<>>
            THEN Ret(dbDel.product, NewServiceError(Nil, nonCritical), k2,
                     dbDel.db, s.seq, cacheDel.cache)
            ELSE Ret(dbDel.product, NilPtr, k2, dbDel.db, s.seq, cacheDel.cache)

\* a DeleteAllProducts that goes on to the store when the cache clear failed
ResourseService_DeleteAllProducts_IgnoreCache(s, f) ==
    LET cacheClear == RedisCache_ClearCache(s.cache, f.cacheClear)
        k1         == <<Call("cache.ClearCache", 0)>>
        dbDelAll   == PostgresRepository_DeleteAllProducts(s.db, f.dbFailAt)
        k2         == Append(k1, Call("db.DeleteAllProducts", 0))
    IN  IF dbDelAll.err # Nil
        THEN Ret(0, NewServiceError(dbDelAll.err, <<>>), k2,
                 dbDelAll.db, s.seq, cacheClear.cache)
        ELSE IF cacheClear.err # Nil
        THEN Ret(0, NewServiceError(cacheClear.err, <<>>), k2,
                 dbDelAll.db, s.seq, cacheClear.cache)
        ELSE Ret(dbDelAll.count, NilPtr, k2, dbDelAll.db, s.seq, cacheClear.cache)

\* a DeleteAllProducts that empties the table before it clears the cache
ResourseService_DeleteAllProducts_StoreFirst(s, f) ==
    LET dbDelAll == PostgresRepository_DeleteAllProducts(s.db, f.dbFailAt)
        k1       == <<Call("db.DeleteAllProducts", 0)>>
    IN  IF dbDelAll.err # Nil
        THEN Ret(0, NewServiceError(dbDelAll.err, <<>>), k1,
                 dbDelAll.db, s.seq, s.cache)
        ELSE
        LET cacheClear == RedisCache_ClearCache(s.cache, f.cacheClear)
            k2         == Append(k1, Call("cache.ClearCache", 0))
        IN  IF cacheClear.err # Nil
            THEN Ret(0, NewServiceError(cacheClear.err, <<>>), k2,
                     dbDelAll.db, s.seq, cacheClear.cache)
            ELSE Ret(dbDelAll.count, NilPtr, k2, dbDelAll.db, s.seq, cacheClear.cache)

ResourseService_DeleteAllProducts(s, f) ==
    LET cacheClear == RedisCache_ClearCache(s.cache, f.cacheClear)
        k1         == <<Call("cache.ClearCache", 0)>>
    IN  IF cacheClear.err # Nil
        THEN Ret(0, NewServiceError(cacheClear.err, <<>>), k1,
                 s.db, s.seq, cacheClear.cache)
        ELSE
        LET dbDelAll == PostgresRepository_DeleteAllProducts(s.db, f.dbFailAt)
            k2       == Append(k1, Call("db.DeleteAllProducts", 0))
        IN  IF dbDelAll.err # Nil
            THEN Ret(0, NewServiceError(dbDelAll.err, <<>>), k2,
                     dbDelAll.db, s.seq, cacheClear.cache)
            ELSE Ret(dbDelAll.count, NilPtr, k2, dbDelAll.db, s.seq, cacheClear.cache)

-----------------------------------------------------------------------------
(* The service used by one request at a time.  `last` records the request  *)
(* that ran last: the operation, its arguments, the fault flags drawn for  *)
(* its backend calls, the backends before it (pre) and what it returned.   *)

State == [db |-> db, seq |-> seq, cache |-> cache]

NoProduct == [Name |-> "", AdditionalInfo |-> ""]

NoFaults == [cacheGet |-> FALSE, dbGet |-> FALSE, cacheSet |-> FALSE,
             dbStore |-> FALSE, cacheDel |-> FALSE, dbUpd |-> FALSE,
             dbDel |-> FALSE, cacheClear |-> FALSE, dbFailAt |-> 0,
             dbList |-> FALSE]

Done(op, id, product, f, r) ==
    /\ db' = r.db
    /\ seq' = r.seq
    /\ cache' = r.cache
    /\ last' = [op |-> op, id |-> id, product |-> product, f |-> f,
                limit |-> 0, offset |-> 0, order |-> <<>>,
                pre |-> State, value |-> r.value, err |-> r.err,
                calls |-> r.calls]

\* a listing request: its page and the row order its query met
DoneList(op, limit, offset, order, f, r) ==
    /\ db' = r.db
    /\ seq' = r.seq
    /\ cache' = r.cache
    /\ last' = [op |-> op, id |-> 0, product |-> NoProduct, f |-> f,
                limit |-> limit, offset |-> offset, order |-> order,
                pre |-> State, value |-> r.value, err |-> r.err,
                calls |-> r.calls]

\* a request slot of the concurrent server that runs no request; afterDelete
\* records, for a GetProductById, that it started after a DeleteProductById of
\* its id had returned a deleted product
Idle == [op |-> "none", id |-> 0, product |-> NoProduct, pc |-> "idle",
         nonCritical |-> <<>>, dbRes |-> NilPtr, count |-> 0, removed |-> 0,
         value |-> 0, err |-> NilPtr, afterDelete |-> FALSE]

\* the products table's locks: no transaction holds one
NoTx == [excl |-> 0, share |-> {}, saved |-> EmptyMap]

\* no HTTP exchange has taken place
NoExchange == [handler |-> "none", id |-> <<>>, offset |-> <<>>, limit |-> <<>>,
               payload |-> <<>>, called |-> FALSE, status |-> 0, body |-> <<>>,
               logged |-> <<>>]

\* routing.NewLogger(0, logFile): the request counter starts at 0, nothing is
\* in getNewRequestId and no request id has been returned
NoLogger == [requestCount |-> 0,
             mw |-> [r \in 1..NReq |-> [pc |-> "idle", request_id |-> 0, reg |-> 0]],
             returned |-> <<>>]

Init ==
    /\ db = EmptyMap
    /\ seq = 1
    /\ cache = EmptyMap
    /\ last = [op |-> "none", id |-> 0, product |-> NoProduct, f |-> NoFaults,
               limit |-> 0, offset |-> 0, order |-> <<>>,
               pre |-> [db |-> EmptyMap, seq |-> 1, cache |-> EmptyMap],
               value |-> 0, err |-> NilPtr, calls |-> <<>>]
    /\ prev = [op |-> "other", id |-> 0, product |-> NoProduct,
               value |-> NilBytes, calls |-> <<>>]
    /\ reqs = [r \in 1..NReq |-> Idle]
    /\ tx = NoTx
    /\ http = NoExchange
    /\ ctx = "live"
    /\ logger = NoLogger

GetProductById ==
    \E id \in ReqIds, cacheGet \in BOOLEAN, dbGet \in BOOLEAN, cacheSet \in BOOLEAN :
        LET f == [NoFaults EXCEPT !.cacheGet = cacheGet, !.dbGet = dbGet,
                                  !.cacheSet = cacheSet]
        IN
        Done("GetProductById", id, NoProduct, f,
             ResourseService_GetProductById(State, id, f))

\* a failed query yields no rows in any order
ListOrders(dbList) == IF dbList THEN {<<>>} ELSE RowOrders(db)

GetAllProducts ==
    \E dbList \in BOOLEAN :
        \E order \in ListOrders(dbList) :
            LET f == [NoFaults EXCEPT !.dbList = dbList]
            IN
            DoneList("GetAllProducts", 0, 0, order, f,
                     ResourseService_GetAllProducts(State, order, f))

GetProductsPaged ==
    \E limit \in 1..MaxId, offset \in 0..MaxId, dbList \in BOOLEAN :
        \E order \in ListOrders(dbList) :
            LET f == [NoFaults EXCEPT !.dbList = dbList]
            IN
            DoneList("GetProductsPaged", limit, offset, order, f,
                     ResourseService_GetProductsPaged(State, order, limit, offset, f))

CreateProduct ==
    /\ seq <= MaxId
    /\ \E product \in NewProducts, dbStore \in BOOLEAN, cacheSet \in BOOLEAN :
        LET f == [NoFaults EXCEPT !.dbStore = dbStore, !.cacheSet = cacheSet]
        IN
        Done("CreateProduct", 0, product, f,
             ResourseService_CreateProduct(State, product, f))

UpdateProductById ==
    \E id \in ReqIds, product \in NewProducts, cacheDel \in BOOLEAN, dbUpd \in BOOLEAN :
        LET f == [NoFaults EXCEPT !.cacheDel = cacheDel, !.dbUpd = dbUpd]
        IN
        Done("UpdateProductById", id, product, f,
             ResourseService_UpdateProductById(State, id, product, f))

DeleteProductById ==
    \E id \in ReqIds, cacheDel \in BOOLEAN, dbDel \in BOOLEAN :
        LET f == [NoFaults EXCEPT !.cacheDel = cacheDel, !.dbDel = dbDel]
        IN
        Done("DeleteProductById", id, NoProduct, f,
             ResourseService_DeleteProductById(State, id, f))

DeleteAllProducts ==
    \E cacheClear \in BOOLEAN, dbFailAt \in 0..Len(TxSteps) :
        LET f == [NoFaults EXCEPT !.cacheClear = cacheClear, !.dbFailAt = dbFailAt]
        IN
        Done("DeleteAllProducts", 0, NoProduct, f,
             ResourseService_DeleteAllProducts(State, f))

\* Redis runs with maxmemory and allkeys-lru: it may drop any key at any time
Evict ==
    /\ \E key \in DOMAIN cache : cache' = Del(cache, key)
    /\ last' = [op |-> "Evict", id |-> 0, product |-> NoProduct, f |-> NoFaults,
                limit |-> 0, offset |-> 0, order |-> <<>>,
                pre |-> State, value |-> 0, err |-> NilPtr, calls |-> <<>>]
    /\ UNCHANGED <<db, seq>>

Next ==
    \/ GetProductById /\ UNCHANGED <<prev, reqs, tx, http, ctx, logger>>
    \/ GetAllProducts /\ UNCHANGED <<prev, reqs, tx, http, ctx, logger>>
    \/ GetProductsPaged /\ UNCHANGED <<prev, reqs, tx, http, ctx, logger>>
    \/ CreateProduct /\ UNCHANGED <<prev, reqs, tx, http, ctx, logger>>
    \/ UpdateProductById /\ UNCHANGED <<prev, reqs, tx, http, ctx, logger>>
    \/ DeleteProductById /\ UNCHANGED <<prev, reqs, tx, http, ctx, logger>>
    \/ DeleteAllProducts /\ UNCHANGED <<prev, reqs, tx, http, ctx, logger>>
    \/ Evict /\ UNCHANGED <<prev, reqs, tx, http, ctx, logger>>

Spec == Init /\ [][Next]_vars

-----------------------------------------------------------------------------
(* The same requests, remembering in `prev` the request that ran before    *)
(* the last one when both backends answered all its calls and it was a     *)
(* CreateProduct, or a GetProductById that the store served.               *)

Earlier ==
    IF last.op = "CreateProduct" /\ last.f = NoFaults
    THEN [op |-> "CreateProduct", id |-> last.value, product |-> last.product,
          value |-> NilBytes, calls |-> last.calls]
    ELSE IF last.op = "GetProductById" /\ last.f = NoFaults /\ Len(last.calls) > 1
              /\ last.value # NilBytes
    THEN [op |-> "GetProductById", id |-> last.id, product |-> NoProduct,
          value |-> last.value, calls |-> last.calls]
    ELSE [op |-> "other", id |-> 0, product |-> NoProduct,
          value |-> NilBytes, calls |-> <<>>]

NextPairs ==
    \/ GetProductById /\ prev' = Earlier /\ UNCHANGED <<reqs, tx, http, ctx, logger>>
    \/ GetAllProducts /\ prev' = Earlier /\ UNCHANGED <<reqs, tx, http, ctx, logger>>
    \/ GetProductsPaged /\ prev' = Earlier /\ UNCHANGED <<reqs, tx, http, ctx, logger>>
    \/ CreateProduct /\ prev' = Earlier /\ UNCHANGED <<reqs, tx, http, ctx, logger>>
    \/ UpdateProductById /\ prev' = Earlier /\ UNCHANGED <<reqs, tx, http, ctx, logger>>
    \/ DeleteProductById /\ prev' = Earlier /\ UNCHANGED <<reqs, tx, http, ctx, logger>>
    \/ DeleteAllProducts /\ prev' = Earlier /\ UNCHANGED <<reqs, tx, http, ctx, logger>>
    \/ Evict /\ prev' = Earlier /\ UNCHANGED <<reqs, tx, http, ctx, logger>>

SpecPairs == Init /\ [][NextPairs]_vars

-----------------------------------------------------------------------------
(* The service used by NReq requests at a time (net/http runs every        *)
(* request in its own goroutine; the service takes no lock).  A request    *)
(* runs the method of its operation one backend call at a time; a step is  *)
(* one backend call together with the method's code up to its next backend *)
(* call or return.  reqs[r] holds the operation of slot r, its arguments,  *)
(* the call it makes next (pc), the method's locals and, once it returned  *)
(* (pc = "done"), its value and result.  The listing operations make one   *)
(* store read and write nothing; they are not run here.                    *)
(*                                                                         *)
(* The statements of PostgresRepository.DeleteAllProducts run in a         *)
(* transaction: SELECT COUNT takes a shared lock on the table that only    *)
(* conflicts with TRUNCATE; TRUNCATE takes the exclusive lock, which makes *)
(* every other statement on the table wait until the transaction ends; a   *)
(* transaction that fails is rolled back (tx.saved holds the rows a        *)
(* rollback brings back).  Every other statement commits on its own.       *)

Requests == 1..NReq

Returned(r, value, err) ==
    [reqs EXCEPT ![r] = [@ EXCEPT !.pc = "done", !.value = value, !.err = err,
                                  !.nonCritical = <<>>, !.dbRes = NilPtr]]

\* no other transaction holds the exclusive lock of the table
TableFree(r) == tx.excl \in {0, r}

\* a DeleteProductById(id) has returned the product it deleted (any slot, the
\* one about to be reused included)
DeleteReturned(id) ==
    \E q \in Requests : /\ reqs[q].op = "DeleteProductById"
                        /\ reqs[q].pc = "done"
                        /\ reqs[q].id = id
                        /\ reqs[q].value # NilPtr

Start(r) ==
    /\ reqs[r].pc \in {"idle", "done"}
    /\ \/ \E id \in ReqIds :
            reqs' = [reqs EXCEPT ![r] = [Idle EXCEPT !.op = "GetProductById",
                                                !.id = id, !.pc = "cacheGet",
                                                !.afterDelete = DeleteReturned(id)]]
       \/ /\ seq <= MaxId
          /\ \E product \in NewProducts :
                reqs' = [reqs EXCEPT ![r] = [Idle EXCEPT !.op = "CreateProduct",
                                                    !.product = product,
                                                    !.pc = "dbStore"]]
       \/ \E id \in ReqIds, product \in NewProducts :
            reqs' = [reqs EXCEPT ![r] = [Idle EXCEPT !.op = "UpdateProductById",
                                                !.id = id, !.product = product,
                                                !.pc = "cacheDel"]]
       \/ \E id \in ReqIds :
            reqs' = [reqs EXCEPT ![r] = [Idle EXCEPT !.op = "DeleteProductById",
                                                !.id = id, !.pc = "cacheDel"]]
       \/ reqs' = [reqs EXCEPT ![r] = [Idle EXCEPT !.op = "DeleteAllProducts",
                                              !.pc = "cacheClear"]]
    /\ UNCHANGED <<db, seq, cache, last, prev, http, tx, ctx, logger>>

\* GetProductById: s.cache.GetJSONProductById
GetProductById_cacheGet(r) ==
    /\ reqs[r].op = "GetProductById" /\ reqs[r].pc = "cacheGet"
    /\ \E fault \in BOOLEAN :
        LET cacheGet == RedisCache_GetJSONProductById(cache, reqs[r].id, fault)
        IN  reqs' = IF cacheHit(cacheGet.err)
                    THEN Returned(r, cacheGet.data, NilPtr)
                    ELSE [reqs EXCEPT ![r].pc = "dbGet",
                                      ![r].nonCritical = <<cacheGet.err>>]
    /\ UNCHANGED <<db, seq, cache, last, prev, http, tx, ctx, logger>>

\* GetProductById: s.db.GetProduct
GetProductById_dbGet(r) ==
    /\ reqs[r].op = "GetProductById" /\ reqs[r].pc = "dbGet"
    /\ TableFree(r)
    /\ \E fault \in BOOLEAN :
        LET dbGet == PostgresRepository_GetProduct(db, reqs[r].id, fault)
        IN  reqs' = IF dbGet.err # Nil
                    THEN Returned(r, NilBytes,
                                  NewServiceError(dbGet.err, reqs[r].nonCritical))
                    ELSE [reqs EXCEPT ![r].pc = "cacheSet",
                                      ![r].dbRes = dbGet.product]
    /\ UNCHANGED <<db, seq, cache, last, prev, http, tx, ctx, logger>>

\* GetProductById: s.cache.SetProduct, json.Marshal and the return
GetProductById_cacheSet(r) ==
    /\ reqs[r].op = "GetProductById" /\ reqs[r].pc = "cacheSet"
    /\ \E fault \in BOOLEAN :
        LET dbRes       == Deref(reqs[r].dbRes)
            cacheSet    == RedisCache_SetProduct(cache, dbRes, fault)
            nonCritical == IF cacheSet.err # Nil
                           THEN Append(reqs[r].nonCritical, cacheSet.err)
                           ELSE reqs[r].nonCritical
            res         == json_Marshal(dbRes)
            marshallingErr == Errorf(res.err.is, "service layer error", 0)
        IN  /\ cache' = cacheSet.cache
            /\ reqs' = IF res.err # Nil
                       THEN Returned(r, NilBytes,
                                     NewServiceError(marshallingErr,
                                                     Append(nonCritical, marshallingErr)))
                       ELSE IF nonCritical # <<>>
                       THEN Returned(r, res.data, NewServiceError(Nil, nonCritical))
                       ELSE Returned(r, res.data, NilPtr)
    /\ UNCHANGED <<db, seq, last, prev, http, tx, ctx, logger>>

\* CreateProduct: s.db.StoreProduct
CreateProduct_dbStore(r) ==
    /\ reqs[r].op = "CreateProduct" /\ reqs[r].pc = "dbStore"
    /\ TableFree(r)
    /\ seq <= MaxId
    /\ \E fault \in BOOLEAN :
        LET dbStore == PostgresRepository_StoreProduct(db, seq, reqs[r].product, fault)
        IN  /\ db' = dbStore.db
            /\ seq' = dbStore.seq
            /\ reqs' = IF dbStore.err # Nil
                       THEN Returned(r, 0, NewServiceError(dbStore.err, <<>>))
                       ELSE [reqs EXCEPT ![r].pc = "cacheSet", ![r].id = dbStore.id]
    /\ UNCHANGED <<cache, last, prev, http, tx, ctx, logger>>

\* CreateProduct: s.cache.SetProduct and the return
CreateProduct_cacheSet(r) ==
    /\ reqs[r].op = "CreateProduct" /\ reqs[r].pc = "cacheSet"
    /\ \E fault \in BOOLEAN :
        LET newlyStoredProduct == [Id |-> reqs[r].id, Name |-> reqs[r].product.Name,
                                   AdditionalInfo |-> reqs[r].product.AdditionalInfo]
            cacheSet == RedisCache_SetProduct(cache, newlyStoredProduct, fault)
        IN  /\ cache' = cacheSet.cache
            /\ reqs' = IF cacheSet.err # Nil
                       THEN Returned(r, reqs[r].id, NewServiceError(Nil, <<cacheSet.err>>))
                       ELSE Returned(r, reqs[r].id, NilPtr)
    /\ UNCHANGED <<db, seq, last, prev, http, tx, ctx, logger>>

\* UpdateProductById, DeleteProductById: s.cache.DeleteProductById
Invalidate_cacheDel(r) ==
    /\ reqs[r].op \in {"UpdateProductById", "DeleteProductById"}
    /\ reqs[r].pc = "cacheDel"
    /\ \E fault \in BOOLEAN :
        LET cacheDel == RedisCache_DeleteProductById(cache, reqs[r].id, fault)
        IN  /\ cache' = cacheDel.cache
            /\ reqs' = IF cacheDel.err # Nil /\ ~isDemoted(cacheDel.err)
                       THEN Returned(r, NilPtr, NewServiceError(cacheDel.err, <<>>))
                       ELSE [reqs EXCEPT ![r].pc = "dbWrite",
                                         ![r].nonCritical =
                                             IF cacheDel.err # Nil THEN <<cacheDel.err>>
                                             ELSE <<>>]
    /\ UNCHANGED <<db, seq, last, prev, http, tx, ctx, logger>>

\* UpdateProductById: s.db.UpdateProductById and the return
UpdateProductById_dbUpd(r) ==
    /\ reqs[r].op = "UpdateProductById" /\ reqs[r].pc = "dbWrite"
    /\ TableFree(r)
    /\ \E fault \in BOOLEAN :
        LET dbUpd == PostgresRepository_UpdateProductById(db, reqs[r].id,
                                                          reqs[r].product, fault)
        IN  /\ db' = dbUpd.db
            /\ reqs' = IF dbUpd.err # Nil
                       THEN Returned(r, NilPtr,
                                     NewServiceError(dbUpd.err, reqs[r].nonCritical))
                       ELSE IF reqs[r].nonCritical # <<>>
                       THEN Returned(r, dbUpd.product,
                                     NewServiceError(Nil, reqs[r].nonCritical))
                       ELSE Returned(r, dbUpd.product, NilPtr)
    /\ UNCHANGED <<seq, cache, last, prev, http, tx, ctx, logger>>

\* DeleteProductById: s.db.DeleteProductById and the return
DeleteProductById_dbDel(r) ==
    /\ reqs[r].op = "DeleteProductById" /\ reqs[r].pc = "dbWrite"
    /\ TableFree(r)
    /\ \E fault \in BOOLEAN :
        LET dbDel == PostgresRepository_DeleteProductById(db, reqs[r].id, fault)
        IN  /\ db' = dbDel.db
            /\ reqs' = IF dbDel.err # Nil
                       THEN Returned(r, NilPtr,
                                     NewServiceError(dbDel.err, reqs[r].nonCritical))
                       ELSE IF reqs[r].nonCritical # <<>>
                       THEN Returned(r, dbDel.product,
                                     NewServiceError(Nil, reqs[r].nonCritical))
                       ELSE Returned(r, dbDel.product, NilPtr)
    /\ UNCHANGED <<seq, cache, last, prev, http, tx, ctx, logger>>

\* DeleteAllProducts: s.cache.ClearCache
DeleteAllProducts_cacheClear(r) ==
    /\ reqs[r].op = "DeleteAllProducts" /\ reqs[r].pc = "cacheClear"
    /\ \E fault \in BOOLEAN :
        LET cacheClear == RedisCache_ClearCache(cache, fault)
        IN  /\ cache' = cacheClear.cache
            /\ reqs' = IF cacheClear.err # Nil
                       THEN Returned(r, 0, NewServiceError(cacheClear.err, <<>>))
                       ELSE [reqs EXCEPT ![r].pc = "txBegin"]
    /\ UNCHANGED <<db, seq, last, prev, http, tx, ctx, logger>>

\* the statement of the transaction failed: repository and service return,
\* the deferred tx.Rollback() releases the locks and brings back the rows
RolledBack(r, step) ==
    /\ reqs' = [Returned(r, 0, NewServiceError(Errorf(ErrInternalDb, TxSteps[step], 0), <<>>))
                    EXCEPT ![r].removed = 0]
    /\ db' = IF tx.excl = r THEN tx.saved ELSE db
    /\ tx' = [excl |-> IF tx.excl = r THEN 0 ELSE tx.excl,
              share |-> tx.share \ {r},
              saved |-> IF tx.excl = r THEN EmptyMap ELSE tx.saved]

\* DeleteAllProducts: r.db.Begin()
DeleteAllProducts_txBegin(r) ==
    /\ reqs[r].op = "DeleteAllProducts" /\ reqs[r].pc = "txBegin"
    /\ \/ /\ reqs' = [reqs EXCEPT ![r].pc = "txCount"]
          /\ UNCHANGED <<db, tx>>
       \/ RolledBack(r, 1)
    /\ UNCHANGED <<seq, cache, last, prev, http, ctx, logger>>

\* DeleteAllProducts: SELECT COUNT (*) FROM products
DeleteAllProducts_txCount(r) ==
    /\ reqs[r].op = "DeleteAllProducts" /\ reqs[r].pc = "txCount"
    /\ TableFree(r)
    /\ \/ /\ reqs' = [reqs EXCEPT ![r].pc = "txTruncate",
                                  ![r].count = Cardinality(DOMAIN db)]
          /\ tx' = [tx EXCEPT !.share = @ \cup {r}]
          /\ UNCHANGED db
       \/ RolledBack(r, 2)
    /\ UNCHANGED <<seq, cache, last, prev, http, ctx, logger>>

\* DeleteAllProducts: TRUNCATE TABLE products; it waits for the locks of
\* other transactions, or fails (the server ends a deadlock by failing one
\* of the statements that wait)
DeleteAllProducts_txTruncate(r) ==
    /\ reqs[r].op = "DeleteAllProducts" /\ reqs[r].pc = "txTruncate"
    /\ \/ /\ tx.excl = 0
          /\ tx.share \subseteq {r}
          /\ reqs' = [reqs EXCEPT ![r].pc = "txCommit",
                                  ![r].removed = Cardinality(DOMAIN db)]
          /\ tx' = [excl |-> r, share |-> tx.share, saved |-> db]
          /\ db' = EmptyMap
       \/ RolledBack(r, 3)
    /\ UNCHANGED <<seq, cache, last, prev, http, ctx, logger>>

\* DeleteAllProducts: tx.Commit() and the return
DeleteAllProducts_txCommit(r) ==
    /\ reqs[r].op = "DeleteAllProducts" /\ reqs[r].pc = "txCommit"
    /\ \/ /\ reqs' = Returned(r, reqs[r].count, NilPtr)
          /\ tx' = NoTx
          /\ UNCHANGED db
       \/ RolledBack(r, 4)
    /\ UNCHANGED <<seq, cache, last, prev, http, ctx, logger>>

\* Redis drops a key while requests run
EvictDuring ==
    /\ \E key \in DOMAIN cache : cache' = Del(cache, key)
    /\ UNCHANGED <<db, seq, last, prev, http, reqs, tx, ctx, logger>>

NextConc ==
    \/ \E r \in Requests : Start(r)
    \/ \E r \in Requests : GetProductById_cacheGet(r)
    \/ \E r \in Requests : GetProductById_dbGet(r)
    \/ \E r \in Requests : GetProductById_cacheSet(r)
    \/ \E r \in Requests : CreateProduct_dbStore(r)
    \/ \E r \in Requests : CreateProduct_cacheSet(r)
    \/ \E r \in Requests : Invalidate_cacheDel(r)
    \/ \E r \in Requests : UpdateProductById_dbUpd(r)
    \/ \E r \in Requests : DeleteProductById_dbDel(r)
    \/ \E r \in Requests : DeleteAllProducts_cacheClear(r)
    \/ \E r \in Requests : DeleteAllProducts_txBegin(r)
    \/ \E r \in Requests : DeleteAllProducts_txCount(r)
    \/ \E r \in Requests : DeleteAllProducts_txTruncate(r)
    \/ \E r \in Requests : DeleteAllProducts_txCommit(r)
    \/ EvictDuring

SpecConc == Init /\ [][NextConc]_vars

-----------------------------------------------------------------------------
(* internal/routing: the handlers of ProductHandler in front of the        *)
(* service, one request at a time.  A request carries the text after       *)
(* /product/ (id), the query parameters offset and limit ("" when absent)  *)
(* and its JSON payload; http holds the request of the last exchange, the  *)
(* status and body written to the ResponseWriter, the errors stored into   *)
(* the request's ErrorContainer (logged) and whether the handler called    *)
(* the service.  Texts are sequences of characters or pieces.              *)

\* strconv.ParseInt(s, 10, 64): an optional sign and decimal digits
IsDigits(s) == s # <<>> /\ \A i \in DOMAIN s : \E d \in DOMAIN Digit : Digit[d] = s[i]

RECURSIVE Atoi(_)
Atoi(s) ==
    IF s = <<>> THEN 0
    ELSE 10 * Atoi(SubSeq(s, 1, Len(s) - 1))
         + ((CHOOSE d \in DOMAIN Digit : Digit[d] = s[Len(s)]) - 1)

strconv_ParseInt(s) ==
    IF IsDigits(s) THEN [value |-> Atoi(s), err |-> FALSE]
    ELSE IF s # <<>> /\ Head(s) = "-" /\ IsDigits(Tail(s))
    THEN [value |-> 0 - Atoi(Tail(s)), err |-> FALSE]
    ELSE IF s # <<>> /\ Head(s) = "+" /\ IsDigits(Tail(s))
    THEN [value |-> Atoi(Tail(s)), err |-> FALSE]
    ELSE [value |-> 0, err |-> TRUE]

\* an error made by a handler (no sentinel)
HandlerError(at) == [is |-> "", at |-> at, id |-> 0]

\* json.NewEncoder(w).Encode(map[string]string{"error": msg})
json_EncodeError(msg) == <<"{\"error\":\"", msg, "\"}", "\n">>

\* json.NewEncoder(w).Encode of a *domain.Product
json_EncodeProduct(p) ==
    IF p = NilPtr THEN <<"null", "\n">>
    ELSE json_Marshal(Deref(p)).data \o <<"\n">>

RECURSIVE json_Elements(_)
json_Elements(list) ==
    IF list = <<>> THEN <<>>
    ELSE json_Marshal(Head(list)).data
         \o (IF Len(list) > 1 THEN <<",">> ELSE <<>>)
         \o json_Elements(Tail(list))

\* json.NewEncoder(w).Encode of a []domain.Product
json_EncodeProducts(products) ==
    IF products = NilPtr THEN <<"null", "\n">>
    ELSE <<"[">> \o json_Elements(Deref(products)) \o <<"]", "\n">>

\* json.NewEncoder(w).Encode of struct{ID int64 `json:"id"`}
json_EncodeId(id) == <<"{\"id\":">> \o Itoa(id) \o <<"}", "\n">>

\* json.NewEncoder(w).Encode of struct{DeletedRows int64 `json:"deletedRows"`}
json_EncodeDeletedRows(n) == <<"{\"deletedRows\":">> \o Itoa(n) \o <<"}", "\n">>

\* parseAndValidate(s, lb, name, c, w): the value, or the 400 it wrote
parseAndValidate(s, lb, name) ==
    LET parsed == strconv_ParseInt(s)
    IN  IF parsed.err
        THEN [value |-> 0, err |-> TRUE, status |-> 400,
              body |-> json_EncodeError(<<"Invalid ", name>>),
              logged |-> <<HandlerError("handler error: failed to parse")>>]
        ELSE IF parsed.value < lb
        THEN [value |-> 0, err |-> TRUE, status |-> 400,
              body |-> json_EncodeError(<<"Invalid ", name>>),
              logged |-> <<HandlerError("hanlder error: invalid")>>]
        ELSE [value |-> parsed.value, err |-> FALSE, status |-> 0, body |-> <<>>,
              logged |-> <<>>]

\* a JSON payload: text that is not JSON, or an object with its members in
\* order, each a key and a string or a number
Member(key, kind, str) == [key |-> key, kind |-> kind, str |-> str]

Object(members) == [wellFormed |-> TRUE, members |-> members]

Payloads ==
    { [wellFormed |-> FALSE, members |-> <<>>] }
    \cup { Object(<<Member("name", "string", np.Name),
                    Member("additionalInfo", "string", np.AdditionalInfo)>>) :
             np \in NewProducts }
    \cup { Object(<<Member("name", "string", ""),
                    Member("additionalInfo", "string", "infoA")>>),
           Object(<<Member("name", "string", "A"),
                    Member("additionalInfo", "string", "")>>),
           Object(<<Member("name", "string", "A"),
                    Member("additionalInfo", "string", "infoA"),
                    Member("price", "string", "1")>>),
           Object(<<Member("name", "number", "1"),
                    Member("additionalInfo", "string", "infoA")>>) }

\* decoder.DisallowUnknownFields(); decoder.Decode(&req) into a
\* domain.NewProduct: fields that the payload lacks stay empty
RECURSIVE DecodeMembers(_, _)
DecodeMembers(members, req) ==
    IF members = <<>> THEN [req |-> req, err |-> FALSE]
    ELSE LET m == Head(members)
         IN  IF m.key \notin {"name", "additionalInfo"} \/ m.kind # "string"
             THEN [req |-> req, err |-> TRUE]
             ELSE DecodeMembers(Tail(members),
                                IF m.key = "name" THEN [req EXCEPT !.Name = m.str]
                                ELSE [req EXCEPT !.AdditionalInfo = m.str])

json_Decode(payload) ==
    IF ~payload.wellFormed THEN [req |-> NoProduct, err |-> TRUE]
    ELSE DecodeMembers(payload.members, NoProduct)

\* a payload check that only looks at the decoder's error
DecodePayload_AllowsEmpty(payload) ==
    LET decoded == json_Decode(payload)
    IN  IF decoded.err
        THEN [req |-> NoProduct, err |-> TRUE, status |-> 400,
              body |-> json_EncodeError(<<"Invalid request body">>),
              logged |-> <<HandlerError("failed to decode payload")>>]
        ELSE [req |-> decoded.req, err |-> FALSE, status |-> 0, body |-> <<>>,
              logged |-> <<>>]

\* CreateProduct / UpdateProduct: decoding and checking the payload
DecodePayload(payload) ==
    LET decoded == json_Decode(payload)
    IN  IF decoded.err
        THEN [req |-> NoProduct, err |-> TRUE, status |-> 400,
              body |-> json_EncodeError(<<"Invalid request body">>),
              logged |-> <<HandlerError("failed to decode payload")>>]
        ELSE IF decoded.req.Name = "" \/ decoded.req.AdditionalInfo = ""
        THEN [req |-> NoProduct, err |-> TRUE, status |-> 400,
              body |-> json_EncodeError(<<"Invalid request body">>),
              logged |-> <<HandlerError("failed to decode payload: product name or additional info is empty")>>]
        ELSE [req |-> decoded.req, err |-> FALSE, status |-> 0, body |-> <<>>,
              logged |-> <<>>]

\* storeServiceErrToCtx(ctx, e)
storeServiceErrToCtx(e) ==
    (IF e.CriticalError # Nil THEN <<e.CriticalError>> ELSE <<>>)
        \o e.NonCriticalErrors

\* a mapping of critical errors that never answers 404
WriteResponse_Always500(serviceErr, notFoundIs404, okStatus, okBody) ==
    IF serviceErr # NilPtr /\ Deref(serviceErr).CriticalError # Nil
    THEN [status |-> 500, body |-> json_EncodeError(<<"Internal server error">>),
          logged |-> storeServiceErrToCtx(Deref(serviceErr))]
    ELSE [status |-> okStatus, body |-> okBody,
          logged |-> IF serviceErr = NilPtr THEN <<>>
                     ELSE storeServiceErrToCtx(Deref(serviceErr))]

\* a mapping that answers 500 to every result that holds an error
WriteResponse_AnyErrorIs500(serviceErr, notFoundIs404, okStatus, okBody) ==
    IF serviceErr # NilPtr
    THEN [status |-> 500, body |-> json_EncodeError(<<"Internal server error">>),
          logged |-> storeServiceErrToCtx(Deref(serviceErr))]
    ELSE [status |-> okStatus, body |-> okBody, logged |-> <<>>]

\* what a handler writes after the service returned: the failure status of
\* a critical error (404 for NotFound in the handlers of /product/{id}),
\* otherwise the success status and body
WriteResponse(serviceErr, notFoundIs404, okStatus, okBody) ==
    IF serviceErr # NilPtr /\ Deref(serviceErr).CriticalError # Nil
    THEN IF notFoundIs404 /\ ErrorsIs(Deref(serviceErr).CriticalError, ErrNotFound)
         THEN [status |-> 404, body |-> json_EncodeError(<<"Product not found">>),
               logged |-> storeServiceErrToCtx(Deref(serviceErr))]
         ELSE [status |-> 500, body |-> json_EncodeError(<<"Internal server error">>),
               logged |-> storeServiceErrToCtx(Deref(serviceErr))]
    ELSE [status |-> okStatus, body |-> okBody,
          logged |-> IF serviceErr = NilPtr THEN <<>>
                     ELSE storeServiceErrToCtx(Deref(serviceErr))]

\* the request of an exchange
Request(handler, id, offset, limit, payload) ==
    [NoExchange EXCEPT !.handler = handler, !.id = id, !.offset = offset,
                       !.limit = limit, !.payload = payload]

\* the handler answered without calling the service
Rejected(request, w) ==
    /\ UNCHANGED <<db, seq, cache>>
    /\ last' = [op |-> "none", id |-> 0, product |-> NoProduct, f |-> NoFaults,
                limit |-> 0, offset |-> 0, order |-> <<>>, pre |-> State,
                value |-> 0, err |-> NilPtr, calls |-> <<>>]
    /\ http' = [request EXCEPT !.called = FALSE, !.status = w.status,
                               !.body = w.body, !.logged = w.logged]

\* the handler answered after the service returned
Answered(request, w) ==
    http' = [request EXCEPT !.called = TRUE, !.status = w.status,
                            !.body = w.body, !.logged = w.logged]

\* the texts sent as id: every id in use, 0, a negative number, no number
Numerals == { Itoa(n) : n \in 0..MaxId } \cup { <<"-", "1">>, <<"x">> }

\* the texts sent as offset and as limit
PageNumerals == { <<"0">>, <<"1">>, <<"2">>, <<"-", "1">>, <<"x">> }

\* the offset and limit of a listing request: both sent, one sent, none sent
Pages ==
    (PageNumerals \X PageNumerals)
        \cup { <<<<>>, <<>>>>, <<<<"1">>, <<>>>>, <<<<>>, <<"1">>>> }

ProductHandler_GetProducts ==
    \E page \in Pages :
        LET offset    == page[1]
            limit     == page[2]
            request   == Request("GetProducts", <<>>, offset, limit, <<>>)
            offsetInt == parseAndValidate(offset, 1, "offset")
            limitInt  == parseAndValidate(limit, 1, "limit")
        IN  IF offset # <<>> /\ limit # <<>>
            THEN IF offsetInt.err THEN Rejected(request, offsetInt)
                 ELSE IF limitInt.err THEN Rejected(request, limitInt)
                 ELSE
                 \* h.svc.GetProductsPaged(r.Context(), offsetInt, limitInt)
                 \* binds offsetInt to the method's limit and limitInt to
                 \* its offset
                 \E dbList \in BOOLEAN : \E order \in ListOrders(dbList) :
                     LET f == [NoFaults EXCEPT !.dbList = dbList]
                         r == ResourseService_GetProductsPaged(
                                  State, order, offsetInt.value, limitInt.value, f)
                     IN  /\ DoneList("GetProductsPaged", offsetInt.value,
                                     limitInt.value, order, f, r)
                         /\ Answered(request,
                                WriteResponse(r.err, FALSE, 200,
                                              json_EncodeProducts(r.value)))
            ELSE \E dbList \in BOOLEAN : \E order \in ListOrders(dbList) :
                     LET f == [NoFaults EXCEPT !.dbList = dbList]
                         r == ResourseService_GetAllProducts(State, order, f)
                     IN  /\ DoneList("GetAllProducts", 0, 0, order, f, r)
                         /\ Answered(request,
                                WriteResponse(r.err, FALSE, 200,
                                              json_EncodeProducts(r.value)))

ProductHandler_CreateProduct ==
    \E payload \in Payloads :
        LET request == Request("CreateProduct", <<>>, <<>>, <<>>, payload)
            decoded == DecodePayload(payload)
        IN  IF decoded.err THEN Rejected(request, decoded)
            ELSE /\ seq <= MaxId
                 /\ \E dbStore \in BOOLEAN, cacheSet \in BOOLEAN :
                      LET f == [NoFaults EXCEPT !.dbStore = dbStore,
                                                !.cacheSet = cacheSet]
                          r == ResourseService_CreateProduct(State, decoded.req, f)
                      IN  /\ Done("CreateProduct", 0, decoded.req, f, r)
                          /\ Answered(request,
                                 WriteResponse(r.err, FALSE, 201,
                                               json_EncodeId(r.value)))

ProductHandler_GetProductById ==
    \E idStr \in Numerals \cup {<<>>} :
        LET request == Request("GetProductById", idStr, <<>>, <<>>, <<>>)
            id == parseAndValidate(idStr, 0, "product id")
        IN  IF id.err THEN Rejected(request, id)
            ELSE \E cacheGet \in BOOLEAN, dbGet \in BOOLEAN, cacheSet \in BOOLEAN :
                   LET f == [NoFaults EXCEPT !.cacheGet = cacheGet, !.dbGet = dbGet,
                                             !.cacheSet = cacheSet]
                       r == ResourseService_GetProductById(State, id.value, f)
                   IN  /\ Done("GetProductById", id.value, NoProduct, f, r)
                       /\ Answered(request, WriteResponse(r.err, TRUE, 200, r.value))

ProductHandler_UpdateProduct ==
    \E idStr \in Numerals \cup {<<>>}, payload \in Payloads :
        LET request == Request("UpdateProduct", idStr, <<>>, <<>>, payload)
            id == parseAndValidate(idStr, 0, "product id")
            decoded == DecodePayload(payload)
        IN  IF id.err THEN Rejected(request, id)
            ELSE IF decoded.err THEN Rejected(request, decoded)
            ELSE \E cacheDel \in BOOLEAN, dbUpd \in BOOLEAN :
                   LET f == [NoFaults EXCEPT !.cacheDel = cacheDel, !.dbUpd = dbUpd]
                       r == ResourseService_UpdateProductById(State, id.value,
                                                              decoded.req, f)
                   IN  /\ Done("UpdateProductById", id.value, decoded.req, f, r)
                       /\ Answered(request,
                              WriteResponse(r.err, TRUE, 200,
                                            json_EncodeProduct(r.value)))

ProductHandler_DeleteProduct ==
    \E idStr \in Numerals \cup {<<>>} :
        LET request == Request("DeleteProduct", idStr, <<>>, <<>>, <<>>)
            id == parseAndValidate(idStr, 0, "product id")
        IN  IF id.err THEN Rejected(request, id)
            ELSE \E cacheDel \in BOOLEAN, dbDel \in BOOLEAN :
                   LET f == [NoFaults EXCEPT !.cacheDel = cacheDel, !.dbDel = dbDel]
                       r == ResourseService_DeleteProductById(State, id.value, f)
                   IN  /\ Done("DeleteProductById", id.value, NoProduct, f, r)
                       /\ Answered(request,
                              WriteResponse(r.err, TRUE, 200,
                                            json_EncodeProduct(r.value)))

ProductHandler_DeleteAll ==
    \E cacheClear \in BOOLEAN, dbFailAt \in 0..Len(TxSteps) :
        LET request == Request("DeleteAll", <<>>, <<>>, <<>>, <<>>)
            f == [NoFaults EXCEPT !.cacheClear = cacheClear, !.dbFailAt = dbFailAt]
            r == ResourseService_DeleteAllProducts(State, f)
        IN  /\ Done("DeleteAllProducts", 0, NoProduct, f, r)
            /\ Answered(request,
                   WriteResponse(r.err, FALSE, 200, json_EncodeDeletedRows(r.value)))

NextHttp ==
    \/ ProductHandler_GetProducts /\ UNCHANGED <<prev, reqs, tx, ctx, logger>>
    \/ ProductHandler_CreateProduct /\ UNCHANGED <<prev, reqs, tx, ctx, logger>>
    \/ ProductHandler_GetProductById /\ UNCHANGED <<prev, reqs, tx, ctx, logger>>
    \/ ProductHandler_UpdateProduct /\ UNCHANGED <<prev, reqs, tx, ctx, logger>>
    \/ ProductHandler_DeleteProduct /\ UNCHANGED <<prev, reqs, tx, ctx, logger>>
    \/ ProductHandler_DeleteAll /\ UNCHANGED <<prev, reqs, tx, ctx, logger>>
    \/ Evict /\ http' = NoExchange /\ UNCHANGED <<prev, reqs, tx, ctx, logger>>

SpecHttp == Init /\ [][NextHttp]_vars

-----------------------------------------------------------------------------
(* Reading the last request *)

\* the fields of a result; a nil result has no critical error and an empty list
Critical(err) == IF err = NilPtr THEN Nil ELSE Deref(err).CriticalError

NonCritical(err) == IF err = NilPtr THEN <<>> ELSE Deref(err).NonCriticalErrors

CallsTo(fn) == { i \in DOMAIN last.calls : last.calls[i].fn = fn }

StoreCalls == { i \in DOMAIN last.calls :
                  last.calls[i].fn \in { "db.GetProduct", "db.StoreProduct",
                                         "db.UpdateProductById", "db.DeleteProductById",
                                         "db.DeleteAllProducts" } }

BackendsUnchanged == db = last.pre.db /\ seq = last.pre.seq /\ cache = last.pre.cache

\* the table and the keyspace as the last request found them
InStoreBefore(id) == id \in DOMAIN last.pre.db

InCacheBefore(id) == createKey(id) \in DOMAIN last.pre.cache

StoredBefore(id) ==
    [Id |-> id, Name |-> last.pre.db[id].name,
     AdditionalInfo |-> last.pre.db[id].additional_info]

\* the cache Get of the last GetProductById returned data
CacheServed == ~last.f.cacheGet /\ InCacheBefore(last.id)

IsInvalidating == last.op \in {"UpdateProductById", "DeleteProductById"}

StoreFault == IF last.op = "UpdateProductById" THEN last.f.dbUpd ELSE last.f.dbDel

StoreCallOf == IF last.op = "UpdateProductById" THEN "db.UpdateProductById"
               ELSE "db.DeleteProductById"

-----------------------------------------------------------------------------
(* Claims *)

\* C1: a GetProductById whose cache Get succeeds returns exactly the cached
\* bytes and a nil result, makes no store call and no cache write (the cache
\* Get is its only backend call) and leaves store and cache as they were.
C1_CacheHitShortCircuit ==
    (last.op = "GetProductById" /\ CacheServed) =>
        /\ last.value = last.pre.cache[createKey(last.id)]
        /\ last.err = NilPtr
        /\ last.calls = <<Call("cache.GetJSONProductById", last.id)>>
        /\ StoreCalls = {}
        /\ CallsTo("cache.SetProduct") = {}
        /\ BackendsUnchanged

C1_Witness ==
    /\ last.op = "GetProductById"
    /\ CacheServed
    /\ last.value # NilBytes
    /\ InStoreBefore(last.id)

\* C2: in sequential use from empty backends, GetProductById of an id that is
\* not in the store returns nil bytes and a result whose critical error is the
\* store's NotFound (or the store's internal error when the store call
\* faults); a store internal error is critical also for an id in the store
\* that the cache did not serve; in both cases the non-critical list is
\* exactly the error of the cache Get and no cache write is made.
C2_StoreMissIsCritical ==
    (/\ last.op = "GetProductById"
     /\ \/ ~InStoreBefore(last.id)
        \/ (last.f.dbGet /\ ~CacheServed)) =>
        /\ last.value = NilBytes
        /\ last.err # NilPtr
        /\ Critical(last.err).is = (IF last.f.dbGet THEN ErrInternalDb ELSE ErrNotFound)
        /\ Critical(last.err).at = (IF last.f.dbGet THEN "failed to get product"
                                    ELSE "failed to find product in DB")
        /\ Len(NonCritical(last.err)) = 1
        /\ NonCritical(last.err)[1].is =
              (IF last.f.cacheGet THEN ErrInternalCache ELSE ErrNotFound)
        /\ NonCritical(last.err)[1].at =
              (IF last.f.cacheGet THEN "failed to get product from cache"
               ELSE "failed to find product in cache")
        /\ CallsTo("cache.SetProduct") = {}
        /\ BackendsUnchanged

C2_Witness ==
    /\ last.op = "GetProductById"
    /\ ~InStoreBefore(last.id)
    /\ last.id > 0
    /\ last.id < last.pre.seq
    /\ ~last.f.dbGet
    /\ ~last.f.cacheGet
    /\ Critical(last.err).is = ErrNotFound

\* C3: GetProductById of an id in the store that the cache does not serve
\* (miss or cache fault), the store answering, returns the serialization of
\* the store's product with no critical error and makes exactly one cache
\* Set, of that product: if the Set succeeds the cache then holds the
\* serialized product under the id's key; if it fails the cache is as before
\* and the failure is the last non-critical error.
C3_StoreHitRepopulates ==
    (/\ last.op = "GetProductById"
     /\ InStoreBefore(last.id)
     /\ ~CacheServed
     /\ ~last.f.dbGet) =>
        LET bytes == json_Marshal(StoredBefore(last.id)).data
            nc    == NonCritical(last.err)
        IN  /\ last.value = bytes
            /\ Critical(last.err) = Nil
            /\ Cardinality(CallsTo("cache.SetProduct")) = 1
            /\ last.calls[Len(last.calls)] = Call("cache.SetProduct", last.id)
            /\ db = last.pre.db
            /\ IF last.f.cacheSet
               THEN /\ cache = last.pre.cache
                    /\ nc[Len(nc)].is = ErrInternalCache
                    /\ nc[Len(nc)].at = "failed to store product to cache"
               ELSE /\ createKey(last.id) \in DOMAIN cache
                    /\ cache[createKey(last.id)] = bytes
                    /\ \A k \in DOMAIN last.pre.cache \ {createKey(last.id)} :
                          k \in DOMAIN cache /\ cache[k] = last.pre.cache[k]

C3_Witness ==
    /\ last.op = "GetProductById"
    /\ InStoreBefore(last.id)
    /\ ~InCacheBefore(last.id)
    /\ ~last.f.dbGet
    /\ ~last.f.cacheSet
    /\ createKey(last.id) \in DOMAIN cache

\* C4 as stated: GetProductById of an id in the store and absent from a
\* healthy cache yields no non-critical error, and exactly one only when the
\* cache Set fails.
C4_MissIsSilent ==
    (/\ last.op = "GetProductById"
     /\ InStoreBefore(last.id)
     /\ ~InCacheBefore(last.id)
     /\ ~last.f.cacheGet
     /\ ~last.f.dbGet) =>
        Len(NonCritical(last.err)) = (IF last.f.cacheSet THEN 1 ELSE 0)

\* C4 amended: GetProductById of an id in the store and absent from a healthy
\* cache always reports the cache miss (NotFound of the cache Get) as the
\* first non-critical error: the list is exactly that miss when the cache Set
\* succeeds, and the miss followed by the Set's error when the Set fails;
\* there is never a critical error.
C4_MissIsReported ==
    (/\ last.op = "GetProductById"
     /\ InStoreBefore(last.id)
     /\ ~InCacheBefore(last.id)
     /\ ~last.f.cacheGet
     /\ ~last.f.dbGet) =>
        LET nc == NonCritical(last.err)
        IN  /\ last.err # NilPtr
            /\ Critical(last.err) = Nil
            /\ Len(nc) = (IF last.f.cacheSet THEN 2 ELSE 1)
            /\ nc[1] = Errorf(ErrNotFound, "failed to find product in cache", last.id)
            /\ last.f.cacheSet => nc[2].is = ErrInternalCache

C4_Witness ==
    /\ last.op = "GetProductById"
    /\ InStoreBefore(last.id)
    /\ ~InCacheBefore(last.id)
    /\ ~last.f.cacheGet
    /\ ~last.f.dbGet
    /\ ~last.f.cacheSet
    /\ Len(NonCritical(last.err)) = 1
    /\ last.value # NilBytes

\* C5: when the store insert succeeds CreateProduct returns the id the store
\* assigned (the row of that id is new and holds the payload) whatever the
\* cache Set does: if the Set succeeds the result is nil and the cache holds
\* the serialization of {id, name, additionalInfo} under the id's key; if it
\* fails the same id is returned with no critical error and a non-critical
\* list that is exactly the cache error.
C5_CreateReturnsAssignedId ==
    (last.op = "CreateProduct" /\ ~last.f.dbStore) =>
        LET id == last.value
            p  == [Id |-> id, Name |-> last.product.Name,
                   AdditionalInfo |-> last.product.AdditionalInfo]
        IN  /\ id = last.pre.seq
            /\ id \notin DOMAIN last.pre.db
            /\ id \in DOMAIN db
            /\ db[id] = [name |-> last.product.Name,
                         additional_info |-> last.product.AdditionalInfo]
            /\ IF last.f.cacheSet
               THEN /\ last.err # NilPtr
                    /\ Critical(last.err) = Nil
                    /\ NonCritical(last.err) =
                         <<Errorf(ErrInternalCache, "failed to store product to cache", 0)>>
                    /\ cache = last.pre.cache
               ELSE /\ last.err = NilPtr
                    /\ createKey(id) \in DOMAIN cache
                    /\ cache[createKey(id)] = json_Marshal(p).data

C5_Witness ==
    /\ last.op = "CreateProduct"
    /\ ~last.f.dbStore
    /\ last.f.cacheSet
    /\ last.value > 0
    /\ last.err # NilPtr

\* C6: when the store insert fails CreateProduct returns id 0 and a result
\* whose critical error is the store error and whose non-critical list is
\* empty, makes no cache call, and leaves store and cache unchanged.
C6_CreateStoreFailureAborts ==
    (last.op = "CreateProduct" /\ last.f.dbStore) =>
        /\ last.value = 0
        /\ last.err # NilPtr
        /\ Critical(last.err) = Errorf(ErrInternalDb, "failed to store product", 0)
        /\ NonCritical(last.err) = <<>>
        /\ last.calls = <<Call("db.StoreProduct", 0)>>
        /\ db = last.pre.db
        /\ cache = last.pre.cache

C6_Witness ==
    /\ last.op = "CreateProduct"
    /\ last.f.dbStore
    /\ last.pre.db # EmptyMap
    /\ last.pre.cache # EmptyMap
    /\ Critical(last.err).is = ErrInternalDb

\* C7: when the cache Delete of UpdateProductById or DeleteProductById reports
\* NotFound the store is still called, and if the store succeeds the value is
\* the store's snapshot of the row and the result has no critical error and a
\* non-critical list that is exactly that cache NotFound.
C7_CacheNotFoundIsDemoted ==
    (/\ IsInvalidating
     /\ ~last.f.cacheDel
     /\ ~InCacheBefore(last.id)) =>
        /\ Len(last.calls) = 2
        /\ last.calls[2] = Call(StoreCallOf, last.id)
        /\ (InStoreBefore(last.id) /\ ~StoreFault) =>
              /\ last.value = Ref(StoredBefore(last.id))
              /\ last.err # NilPtr
              /\ Critical(last.err) = Nil
              /\ NonCritical(last.err) =
                    <<Errorf(ErrNotFound, "product not found in cache", last.id)>>

C7_Witness ==
    /\ IsInvalidating
    /\ ~last.f.cacheDel
    /\ ~InCacheBefore(last.id)
    /\ InStoreBefore(last.id)
    /\ ~StoreFault
    /\ last.value # NilPtr
    /\ Len(NonCritical(last.err)) = 1

\* C8: when the cache Delete of UpdateProductById or DeleteProductById fails
\* with an error other than NotFound the operation returns nil with that
\* cache error as critical error, never calls the store, and the store is
\* unchanged.
C8_CacheFailureAbortsInvalidation ==
    (IsInvalidating /\ last.f.cacheDel) =>
        /\ last.value = NilPtr
        /\ last.err # NilPtr
        /\ Critical(last.err) =
              Errorf(ErrInternalCache, "failed to delete product from cache", last.id)
        /\ last.calls = <<Call("cache.DeleteProductById", last.id)>>
        /\ StoreCalls = {}
        /\ db = last.pre.db
        /\ seq = last.pre.seq

C8_Witness ==
    /\ IsInvalidating
    /\ last.f.cacheDel
    /\ InStoreBefore(last.id)
    /\ InCacheBefore(last.id)
    /\ Critical(last.err).is = ErrInternalCache

\* C9: when the store call of UpdateProductById or DeleteProductById fails
\* (no such row, or an internal failure) the value is nil and the store's
\* error is the critical error; a cache NotFound demoted earlier in the call
\* is still the non-critical list of that result.
C9_StoreFailureIsCritical ==
    (/\ IsInvalidating
     /\ ~last.f.cacheDel
     /\ (StoreFault \/ ~InStoreBefore(last.id))) =>
        /\ last.value = NilPtr
        /\ last.err # NilPtr
        /\ Critical(last.err).is = (IF StoreFault THEN ErrInternalDb ELSE ErrNotFound)
        /\ Critical(last.err).at \in
              { "failed to update product", "failed to delete product",
                "failed to find product in DB" }
        /\ NonCritical(last.err) =
              (IF InCacheBefore(last.id) THEN <<>>
               ELSE <<Errorf(ErrNotFound, "product not found in cache", last.id)>>)
        /\ db = last.pre.db

C9_Witness ==
    /\ IsInvalidating
    /\ ~last.f.cacheDel
    /\ ~InCacheBefore(last.id)
    /\ ~InStoreBefore(last.id)
    /\ ~StoreFault
    /\ Critical(last.err).is = ErrNotFound
    /\ Len(NonCritical(last.err)) = 1

\* C10: when the cache Clear of DeleteAllProducts fails the cache error is the
\* critical error, 0 is returned, the store's DeleteAllProducts is not called
\* and the store is unchanged.
C10_ClearFailureAborts ==
    (last.op = "DeleteAllProducts" /\ last.f.cacheClear) =>
        /\ last.value = 0
        /\ last.err # NilPtr
        /\ Critical(last.err) = Errorf(ErrInternalCache, "failed to clear cache", 0)
        /\ NonCritical(last.err) = <<>>
        /\ last.calls = <<Call("cache.ClearCache", 0)>>
        /\ CallsTo("db.DeleteAllProducts") = {}
        /\ db = last.pre.db

C10_Witness ==
    /\ last.op = "DeleteAllProducts"
    /\ last.f.cacheClear
    /\ last.f.dbFailAt = 0
    /\ Cardinality(DOMAIN db) = MaxId
    /\ Critical(last.err).is = ErrInternalCache

\* C11: when the store step of DeleteAllProducts fails after the cache Clear
\* succeeded, 0 is returned with the store error as critical error, the cache
\* is empty and the store holds exactly the rows it held before the call.
C11_StoreFailureAfterClear ==
    (/\ last.op = "DeleteAllProducts"
     /\ ~last.f.cacheClear
     /\ last.f.dbFailAt # 0) =>
        /\ last.value = 0
        /\ last.err # NilPtr
        /\ Critical(last.err) = Errorf(ErrInternalDb, TxSteps[last.f.dbFailAt], 0)
        /\ NonCritical(last.err) = <<>>
        /\ last.calls = <<Call("cache.ClearCache", 0), Call("db.DeleteAllProducts", 0)>>
        /\ cache = EmptyMap
        /\ db = last.pre.db

C11_Witness ==
    /\ last.op = "DeleteAllProducts"
    /\ ~last.f.cacheClear
    /\ last.f.dbFailAt = Len(TxSteps)
    /\ last.pre.cache # EmptyMap
    /\ cache = EmptyMap
    /\ Cardinality(DOMAIN db) = MaxId

\* C13: after a successful DeleteAllProducts run on its own the store holds
\* no product, the cache holds no entry, and the count returned is the number
\* of products the store held before the call (0 for an empty store).
C13_DeleteAllEmptiesBoth ==
    (/\ last.op = "DeleteAllProducts"
     /\ ~last.f.cacheClear
     /\ last.f.dbFailAt = 0) =>
        /\ last.err = NilPtr
        /\ db = EmptyMap
        /\ cache = EmptyMap
        /\ last.value = Cardinality(DOMAIN last.pre.db)
        /\ (last.pre.db = EmptyMap => last.value = 0)

C13_Witness ==
    /\ last.op = "DeleteAllProducts"
    /\ last.err = NilPtr
    /\ last.value = MaxId
    /\ last.pre.cache # EmptyMap
    /\ db = EmptyMap

\* C14: after a successful UpdateProductById(id, p) run on its own the value
\* is the row as it was before the update (same id, old name and
\* additionalInfo), the store holds (id, p.name, p.additionalInfo), every
\* other row is as before, and the cache has no entry for id.
C14_UpdateReturnsOldSnapshot ==
    (/\ last.op = "UpdateProductById"
     /\ ~last.f.cacheDel
     /\ ~last.f.dbUpd
     /\ InStoreBefore(last.id)) =>
        /\ Critical(last.err) = Nil
        /\ last.value = Ref([Id |-> last.id,
                             Name |-> last.pre.db[last.id].name,
                             AdditionalInfo |-> last.pre.db[last.id].additional_info])
        /\ DOMAIN db = DOMAIN last.pre.db
        /\ db[last.id] = [name |-> last.product.Name,
                          additional_info |-> last.product.AdditionalInfo]
        /\ \A other \in DOMAIN db \ {last.id} : db[other] = last.pre.db[other]
        /\ createKey(last.id) \notin DOMAIN cache

C14_Witness ==
    /\ last.op = "UpdateProductById"
    /\ last.err = NilPtr
    /\ InCacheBefore(last.id)
    /\ last.value # NilPtr
    /\ Deref(last.value).Name # last.product.Name
    /\ Cardinality(DOMAIN db) > 1

\* C15: after a successful DeleteProductById(id) run on its own the value is
\* the deleted row, the store has no row for id, every other row is as
\* before, and the cache has no entry for id.
C15_DeleteReturnsSnapshot ==
    (/\ last.op = "DeleteProductById"
     /\ ~last.f.cacheDel
     /\ ~last.f.dbDel
     /\ InStoreBefore(last.id)) =>
        /\ Critical(last.err) = Nil
        /\ last.value = Ref([Id |-> last.id,
                             Name |-> last.pre.db[last.id].name,
                             AdditionalInfo |-> last.pre.db[last.id].additional_info])
        /\ DOMAIN db = (DOMAIN last.pre.db) \ {last.id}
        /\ \A other \in DOMAIN db : db[other] = last.pre.db[other]
        /\ createKey(last.id) \notin DOMAIN cache

C15_Witness ==
    /\ last.op = "DeleteProductById"
    /\ last.err = NilPtr
    /\ InCacheBefore(last.id)
    /\ last.value # NilPtr
    /\ db # EmptyMap

\* C18: in sequential use from empty backends, with faults and evictions,
\* every cache entry is the serialization of the store's current row of the
\* id in its key: no stale entry and no entry for an id the store lacks.
Coherent ==
    \A key \in DOMAIN cache :
        \E id \in DOMAIN db :
            /\ key = createKey(id)
            /\ cache[key] = json_Marshal([Id |-> id, Name |-> db[id].name,
                                          AdditionalInfo |-> db[id].additional_info]).data

C18_SequentialCoherence == Coherent

C18_Witness ==
    /\ Cardinality(DOMAIN cache) = MaxId
    /\ last.op = "GetProductById"
    /\ InStoreBefore(last.id)
    /\ ~InCacheBefore(last.id)
    /\ Cardinality(DOMAIN last.pre.cache) = MaxId - 1

\* C20: for every service operation and every outcome of its backend calls,
\* a result that carries a critical error comes with the zero value of the
\* operation: nil bytes (GetProductById), a nil list (GetAllProducts,
\* GetProductsPaged), id 0 (CreateProduct), a nil product (UpdateProductById,
\* DeleteProductById), count 0 (DeleteAllProducts).
ReturnsInt == last.op \in {"CreateProduct", "DeleteAllProducts"}

ReturnsRef == last.op \in {"GetProductById", "GetAllProducts", "GetProductsPaged",
                           "UpdateProductById", "DeleteProductById"}

C20_CriticalMeansZeroValue ==
    Critical(last.err) # Nil =>
        /\ ReturnsInt => last.value = 0
        /\ ReturnsRef => last.value = NilPtr
        /\ ReturnsInt \/ ReturnsRef

C20_Witness ==
    /\ last.op = "UpdateProductById"
    /\ Critical(last.err).is = ErrNotFound
    /\ Len(NonCritical(last.err)) = 1
    /\ last.pre.db # EmptyMap
    /\ last.value = NilPtr

\* C16: round trip.  A CreateProduct(p) that returned id with both backends
\* healthy, followed at once (no other request, no eviction) by a healthy
\* GetProductById(id): the Get returns the serialization of
\* {id, p.name, p.additionalInfo} with a nil result, and its only backend
\* call is the cache Get (no store read).
C16_CreateThenGetRoundTrip ==
    (/\ prev.op = "CreateProduct"
     /\ last.op = "GetProductById"
     /\ last.id = prev.id
     /\ last.f = NoFaults) =>
        /\ last.value = <<"{\"id\":">> \o Itoa(prev.id)
                        \o <<",\"name\":\"", prev.product.Name,
                             "\",\"additionalInfo\":\"", prev.product.AdditionalInfo,
                             "\"}">>
        /\ last.err = NilPtr
        /\ last.calls = <<Call("cache.GetJSONProductById", prev.id)>>
        /\ StoreCalls = {}

C16_Witness ==
    /\ prev.op = "CreateProduct"
    /\ prev.id = MaxId
    /\ last.op = "GetProductById"
    /\ last.id = prev.id
    /\ last.f = NoFaults
    /\ last.value # NilBytes

\* C17: two consecutive healthy GetProductById(id) (no other request, no
\* eviction between them) for an id in the store and not in the cache: the
\* first calls the cache, the store and the cache Set, after which the cache
\* holds the id; the second makes the cache Get only, returns a nil result
\* and the same bytes as the first, the serialization of the store's row.
C17_SecondGetHitsCache ==
    (/\ prev.op = "GetProductById"
     /\ last.op = "GetProductById"
     /\ last.id = prev.id
     /\ last.f = NoFaults) =>
        /\ prev.calls = <<Call("cache.GetJSONProductById", prev.id),
                          Call("db.GetProduct", prev.id),
                          Call("cache.SetProduct", prev.id)>>
        /\ InCacheBefore(last.id)
        /\ last.calls = <<Call("cache.GetJSONProductById", last.id)>>
        /\ StoreCalls = {}
        /\ last.err = NilPtr
        /\ last.value = prev.value
        /\ InStoreBefore(last.id)
        /\ last.value = json_Marshal(StoredBefore(last.id)).data

C17_Witness ==
    /\ prev.op = "GetProductById"
    /\ last.op = "GetProductById"
    /\ last.id = prev.id
    /\ last.f = NoFaults
    /\ last.value # NilBytes
    /\ last.value = prev.value

\* the server runs no request
Quiet == \A r \in Requests : reqs[r].pc \in {"idle", "done"}

\* C12: DeleteAllProducts is atomic in the store also while CreateProduct
\* requests insert concurrently: a DeleteAllProducts request that returned
\* without an error returned the number of rows its TRUNCATE removed, and one
\* whose transaction failed returned 0 and removed no row.
C12_DeleteAllIsAtomic ==
    \A r \in Requests :
        reqs[r].op = "DeleteAllProducts" /\ reqs[r].pc = "done" =>
            IF reqs[r].err = NilPtr
            THEN reqs[r].value = reqs[r].removed
            ELSE reqs[r].value = 0 /\ reqs[r].removed = 0

\* C19: with requests running concurrently, once every request has returned
\* each product held in the cache equals the store's product with its id.
C19_CoherentWhenQuiet == Quiet => Coherent

\* the last step was a request to the service
IsRequest == last.op \notin {"none", "Evict"}

\* the error the i-th backend call of the last request returned: each
\* operation calls a backend at most once after reading or writing it, so
\* every call met the backend as the request found it
BackendError(i) ==
    LET c  == last.calls[i]
        p  == [Id |-> c.id, Name |-> last.product.Name,
               AdditionalInfo |-> last.product.AdditionalInfo]
        s0 == last.pre
        f  == last.f
    IN  CASE c.fn = "cache.GetJSONProductById" ->
                RedisCache_GetJSONProductById(s0.cache, c.id, f.cacheGet).err
          [] c.fn = "cache.SetProduct" ->
                RedisCache_SetProduct(s0.cache, p, f.cacheSet).err
          [] c.fn = "cache.DeleteProductById" ->
                RedisCache_DeleteProductById(s0.cache, c.id, f.cacheDel).err
          [] c.fn = "cache.ClearCache" ->
                RedisCache_ClearCache(s0.cache, f.cacheClear).err
          [] c.fn = "db.GetProduct" ->
                PostgresRepository_GetProduct(s0.db, c.id, f.dbGet).err
          [] c.fn = "db.StoreProduct" ->
                PostgresRepository_StoreProduct(s0.db, s0.seq, last.product, f.dbStore).err
          [] c.fn = "db.UpdateProductById" ->
                PostgresRepository_UpdateProductById(s0.db, c.id, last.product, f.dbUpd).err
          [] c.fn = "db.DeleteProductById" ->
                PostgresRepository_DeleteProductById(s0.db, c.id, f.dbDel).err
          [] c.fn = "db.DeleteAllProducts" ->
                PostgresRepository_DeleteAllProducts(s0.db, f.dbFailAt).err
          [] c.fn = "db.GetAllProducts" ->
                PostgresRepository_GetAllProducts(s0.db, last.order, f.dbList).err
          [] c.fn = "db.GetProductsPaged" ->
                PostgresRepository_GetProductsPaged(s0.db, last.order, last.limit,
                                                    last.offset, f.dbList).err

\* the errors the backend calls of the last request returned, in call order
BackendErrors ==
    SelectSeq([i \in DOMAIN last.calls |-> BackendError(i)], LAMBDA e : e # Nil)

IsCacheCall(i) ==
    last.calls[i].fn \in {"cache.GetJSONProductById", "cache.SetProduct",
                          "cache.DeleteProductById", "cache.ClearCache"}

\* C21: an operation returns a nil result exactly when none of its backend
\* calls returned an error, and a non-nil result holds a critical error or
\* at least one non-critical error.
C21_NilResultIffNoBackendError ==
    IsRequest =>
        /\ last.err = NilPtr <=> BackendErrors = <<>>
        /\ last.err # NilPtr =>
              Critical(last.err) # Nil \/ NonCritical(last.err) # <<>>

\* an update that succeeded and still returns a result: the cache had no
\* entry to invalidate
C21_Witness ==
    /\ last.op = "UpdateProductById"
    /\ last.value # NilPtr
    /\ last.err # NilPtr
    /\ Len(BackendErrors) = 1

\* C22: every error a backend call returned during an operation is in the
\* operation's result, as its critical error or in its non-critical list.
C22_NoErrorDropped ==
    IsRequest =>
        \A i \in DOMAIN BackendErrors :
            \/ BackendErrors[i] = Critical(last.err)
            \/ \E j \in DOMAIN NonCritical(last.err) :
                  NonCritical(last.err)[j] = BackendErrors[i]

\* a GetProductById whose cache Get and cache Set both failed
C22_Witness ==
    /\ last.op = "GetProductById"
    /\ last.f.cacheGet /\ last.f.cacheSet
    /\ Len(last.calls) = 3
    /\ Len(BackendErrors) = 2

\* C23: the non-critical list followed by the critical error (one at most)
\* is the sequence of the errors in the order the backend calls returned
\* them: in GetProductById the cache Get error precedes the cache Set error,
\* and a cache error precedes a store error of the same call.
C23_DetectionOrder ==
    IsRequest =>
        NonCritical(last.err)
            \o (IF Critical(last.err) # Nil THEN <<Critical(last.err)>> ELSE <<>>)
          = BackendErrors

\* a cache error and a store error in one call; and a GetProductById with
\* the errors of both its cache calls
C23_Witness ==
    /\ last.op \in {"UpdateProductById", "DeleteProductById"}
    /\ Len(last.calls) = 2
    /\ IsCacheCall(1) /\ ~IsCacheCall(2)
    /\ Len(BackendErrors) = 2
    /\ NonCritical(last.err) = <<BackendError(1)>>
    /\ Critical(last.err) = BackendError(2)

\* C25: GetAllProducts and GetProductsPaged make one call, to the store; on
\* success they return the store's list and a nil result, on failure nil
\* and the store's error as critical error with an empty non-critical list;
\* store and cache stay as they were.
C25_ListingBypassesCache ==
    last.op \in {"GetAllProducts", "GetProductsPaged"} =>
        LET rows == ScanRows(last.pre.db, last.order)
            list == IF last.op = "GetAllProducts" THEN rows
                    ELSE LimitOffset(rows, last.limit, last.offset)
        IN  /\ Len(last.calls) = 1
            /\ \A i \in DOMAIN last.calls : ~IsCacheCall(i)
            /\ BackendsUnchanged
            /\ IF last.f.dbList
               THEN /\ last.value = NilPtr
                    /\ last.err # NilPtr
                    /\ Critical(last.err) = BackendError(1)
                    /\ ErrorsIs(Critical(last.err), ErrInternalDb)
                    /\ NonCritical(last.err) = <<>>
               ELSE /\ last.value = Ref(list)
                    /\ last.err = NilPtr

\* a paged listing that failed in the store while the cache holds a product
C25_Witness ==
    /\ last.op = "GetProductsPaged"
    /\ last.f.dbList
    /\ cache # EmptyMap
    /\ db # EmptyMap

\* the lines of a text: the pieces between its line breaks
RECURSIVE Lines(_)
Lines(text) ==
    IF text = <<>> THEN <<>>
    ELSE LET brk == { i \in DOMAIN text : text[i] = "\n" }
         IN  IF brk = {} THEN <<text>>
             ELSE LET b == CHOOSE i \in brk : \A j \in brk : i <= j
                  IN  <<SubSeq(text, 1, b - 1)>> \o Lines(SubSeq(text, b + 1, Len(text)))

\* the messages of a result: the non-critical ones in list order, then the
\* critical one if there is one
Messages(se) ==
    [i \in DOMAIN se.NonCriticalErrors |-> error_Error(se.NonCriticalErrors[i])]
        \o (IF se.CriticalError # Nil THEN <<error_Error(se.CriticalError)>> ELSE <<>>)

\* C24 as stated: the text of a result is its messages, one per line, and
\* nothing else.
C24_TextIsMessages ==
    IsRequest /\ last.err # NilPtr =>
        Lines(ServiceError_Error(Deref(last.err))) = Messages(Deref(last.err))

\* C24: the text of a result is the line "Service error(s)" followed by the
\* messages, one per line, the non-critical ones in list order and then the
\* critical one; the line of the first message starts with ":".
C24_TextIsHeaderThenMessages ==
    IsRequest /\ last.err # NilPtr =>
        LET se   == Deref(last.err)
            msgs == Messages(se)
        IN  /\ msgs # <<>>
            /\ Lines(ServiceError_Error(se))
                 = << <<"Service error(s)">>, <<":">> \o Head(msgs) >> \o Tail(msgs)
            /\ ServiceError_Error(se)[Len(ServiceError_Error(se))] = "\n"

\* a result with a non-critical and a critical error
C24_Witness ==
    /\ IsRequest /\ last.err # NilPtr
    /\ Len(NonCritical(last.err)) = 1
    /\ Critical(last.err) # Nil
    /\ Len(Lines(ServiceError_Error(Deref(last.err)))) = 3

\* the last exchange was a listing request that sent both offset and limit
IsPaged == http.handler = "GetProducts" /\ http.offset # <<>> /\ http.limit # <<>>

\* the numbers the last request sent as offset, limit and id
SentOffset == strconv_ParseInt(http.offset)

SentLimit == strconv_ParseInt(http.limit)

SentId == strconv_ParseInt(http.id)

\* C26: a paged GET /products with valid limit L and offset O invokes the
\* service and the store with limit L and offset O, and its response holds
\* the at most L products that follow the first O products of the store's
\* order.
C26_PagePassedThrough ==
    IsPaged /\ http.called =>
        /\ last.op = "GetProductsPaged"
        /\ last.limit = SentLimit.value
        /\ last.offset = SentOffset.value
        /\ http.status = 200 =>
              http.body = json_EncodeProducts(
                              Ref(LimitOffset(ScanRows(last.pre.db, last.order),
                                              SentLimit.value, SentOffset.value)))

\* C27: a paged listing request is rejected with 400 exactly when its
\* offset is unparsable or negative or its limit is unparsable or below 1;
\* offset = 0 with limit >= 1 reaches the service.
C27_OffsetZeroIsValid ==
    IsPaged =>
        LET invalid == \/ SentOffset.err \/ SentOffset.value < 0
                       \/ SentLimit.err \/ SentLimit.value < 1
        IN  /\ http.status = 400 <=> invalid
            /\ http.called <=> ~invalid

\* C28: when the service returned a critical error, the handlers of
\* /product/{id} answer 404 "Product not found" if it is a NotFound and 500
\* "Internal server error" otherwise, the handlers of listing, creation and
\* delete-all answer 500; the body is the error document only.
C28_CriticalErrorStatus ==
    http.called /\ Critical(last.err) # Nil =>
        IF /\ http.handler \in {"GetProductById", "UpdateProduct", "DeleteProduct"}
           /\ ErrorsIs(Critical(last.err), ErrNotFound)
        THEN /\ http.status = 404
             /\ http.body = json_EncodeError(<<"Product not found">>)
        ELSE /\ http.status = 500
             /\ http.body = json_EncodeError(<<"Internal server error">>)

\* an update of a product that the store does not hold
C28_Witness ==
    /\ http.handler = "UpdateProduct"
    /\ http.called
    /\ ErrorsIs(Critical(last.err), ErrNotFound)
    /\ http.status = 404

\* a payload that is not a product: not JSON, a member that NewProduct
\* lacks, a member that is no string, no name or no additional info
InvalidPayload(payload) ==
    \/ ~payload.wellFormed
    \/ \E i \in DOMAIN payload.members :
          \/ payload.members[i].key \notin {"name", "additionalInfo"}
          \/ payload.members[i].kind # "string"
    \/ \E key \in {"name", "additionalInfo"} :
          ~\E i \in DOMAIN payload.members :
              payload.members[i].key = key /\ payload.members[i].str # ""

\* C29: a create or update request with an invalid payload, and an update
\* request whose id is no number, gets 400 and causes no service call:
\* store and cache stay as they were.
C29_InvalidInputRejected ==
    /\ http.handler \in {"CreateProduct", "UpdateProduct"}
    /\ \/ InvalidPayload(http.payload)
       \/ http.handler = "UpdateProduct" /\ SentId.err
    => /\ http.status = 400
       /\ ~http.called
       /\ last.calls = <<>>
       /\ BackendsUnchanged

\* an update of a stored product with an empty name
C29_Witness ==
    /\ http.handler = "UpdateProduct"
    /\ ~SentId.err /\ SentId.value \in DOMAIN db
    /\ http.payload.wellFormed
    /\ \E i \in DOMAIN http.payload.members :
          http.payload.members[i].key = "name" /\ http.payload.members[i].str = ""
    /\ http.status = 400
    /\ cache # EmptyMap

\* C30: a GET, PUT or DELETE /product/{id} with id < 1 is rejected with 400
\* "Invalid product id" and no service operation is invoked.
C30_IdBelowOneRejected ==
    /\ http.handler \in {"GetProductById", "UpdateProduct", "DeleteProduct"}
    /\ ~SentId.err
    /\ SentId.value < 1
    => /\ http.status = 400
       /\ http.body = json_EncodeError(<<"Invalid ", "product id">>)
       /\ ~http.called
-----------------------------------------------------------------------------
(* Requests under a context that may be cancelled *)

(* Every service operation hands its ctx to each backend call.  The Redis  *)
(* adapter passes it on to go-redis (client.Set(ctx, ..), Get(ctx, ..),    *)
(* Del(ctx, ..), FlushDB(ctx)), which returns the context's error before   *)
(* it sends a command: under a cancelled context every cache call of the   *)
(* request is a faulted call.  The Postgres adapter receives ctx and calls *)
(* database/sql without it (db.QueryRow, db.Query, db.Begin, tx.Exec, not  *)
(* their ...Context forms), so its statements run as under a context that  *)
(* is never cancelled and fail only for reasons of their own.              *)
Contexts == {"live", "canceled"}

\* every cache call the operation can make fails
CacheCallsFail(op, f) ==
    CASE op = "GetProductById" -> f.cacheGet /\ f.cacheSet
      [] op = "CreateProduct" -> f.cacheSet
      [] op \in {"UpdateProductById", "DeleteProductById"} -> f.cacheDel
      [] op = "DeleteAllProducts" -> f.cacheClear
      [] OTHER -> TRUE

\* the request just served ran under ctx'
WithContext ==
    /\ ctx' \in Contexts
    /\ ctx' = "canceled" => CacheCallsFail(last'.op, last'.f)

NextCtx ==
    \/ GetProductById /\ WithContext /\ UNCHANGED <<prev, reqs, tx, http, logger>>
    \/ GetAllProducts /\ WithContext /\ UNCHANGED <<prev, reqs, tx, http, logger>>
    \/ GetProductsPaged /\ WithContext /\ UNCHANGED <<prev, reqs, tx, http, logger>>
    \/ CreateProduct /\ WithContext /\ UNCHANGED <<prev, reqs, tx, http, logger>>
    \/ UpdateProductById /\ WithContext /\ UNCHANGED <<prev, reqs, tx, http, logger>>
    \/ DeleteProductById /\ WithContext /\ UNCHANGED <<prev, reqs, tx, http, logger>>
    \/ DeleteAllProducts /\ WithContext /\ UNCHANGED <<prev, reqs, tx, http, logger>>
    \/ Evict /\ ctx' = "live" /\ UNCHANGED <<prev, reqs, tx, http, logger>>

SpecCtx == Init /\ [][NextCtx]_vars

-----------------------------------------------------------------------------
(* The logging middleware's request counter *)

(* http.ListenAndServe serves every connection on a goroutine of its own,  *)
(* and all of them share one Logger.  getNewRequestId reads and increments *)
(* l.requestCount with no lock and no atomic operation; the increment is a *)
(* load and a store.  logger.mw[r] is the position of request r in it      *)
(* (request_id and reg are its locals), logger.returned the ids returned   *)
(* so far, in order of return.                                             *)

\* the number of requests the middleware serves
MaxRequests == 3

InMiddleware == { r \in Requests : logger.mw[r].pc # "idle" }

OutsideLogger == <<db, seq, cache, last, prev, reqs, tx, http, ctx>>

\* req_id := l.getNewRequestId() is reached
LoggerMiddleware(r) ==
    /\ logger.mw[r].pc = "idle"
    /\ Len(logger.returned) + Cardinality(InMiddleware) < MaxRequests
    /\ logger' = [logger EXCEPT !.mw[r].pc = "read"]
    /\ UNCHANGED OutsideLogger

\* request_id := l.requestCount
getNewRequestId_read(r) ==
    /\ logger.mw[r].pc = "read"
    /\ logger' = [logger EXCEPT !.mw[r].pc = "load",
                                !.mw[r].request_id = logger.requestCount]
    /\ UNCHANGED OutsideLogger

\* l.requestCount++, the load
getNewRequestId_load(r) ==
    /\ logger.mw[r].pc = "load"
    /\ logger' = [logger EXCEPT !.mw[r].pc = "store",
                                !.mw[r].reg = logger.requestCount]
    /\ UNCHANGED OutsideLogger

\* l.requestCount++, the store
getNewRequestId_store(r) ==
    /\ logger.mw[r].pc = "store"
    /\ logger' = [logger EXCEPT !.mw[r].pc = "return",
                                !.requestCount = logger.mw[r].reg + 1]
    /\ UNCHANGED OutsideLogger

\* return request_id
getNewRequestId_return(r) ==
    /\ logger.mw[r].pc = "return"
    /\ logger' = [logger EXCEPT !.mw[r] = NoLogger.mw[r],
                                !.returned = Append(@, logger.mw[r].request_id)]
    /\ UNCHANGED OutsideLogger

NextLog ==
    \/ \E r \in Requests : LoggerMiddleware(r)
    \/ \E r \in Requests : getNewRequestId_read(r)
    \/ \E r \in Requests : getNewRequestId_load(r)
    \/ \E r \in Requests : getNewRequestId_store(r)
    \/ \E r \in Requests : getNewRequestId_return(r)

SpecLog == Init /\ [][NextLog]_vars

-----------------------------------------------------------------------------
(* Claims about cancellation, call order and concurrent reads *)

\* C31: when the last request ran under a cancelled context, every backend
\* call it made, store or cache, returned an internal error and neither the
\* store nor the cache changed.
C31_CanceledStopsEveryCall ==
    (ctx = "canceled" /\ IsRequest)
        => /\ \A i \in DOMAIN last.calls :
                \/ ErrorsIs(BackendError(i), ErrInternalDb)
                \/ ErrorsIs(BackendError(i), ErrInternalCache)
           /\ BackendsUnchanged

\* the backend calls of an operation in the order of its statements
Pipeline(op) ==
    CASE op = "GetProductById" ->
            <<"cache.GetJSONProductById", "db.GetProduct", "cache.SetProduct">>
      [] op = "CreateProduct" -> <<"db.StoreProduct", "cache.SetProduct">>
      [] op = "UpdateProductById" ->
            <<"cache.DeleteProductById", "db.UpdateProductById">>
      [] op = "DeleteProductById" ->
            <<"cache.DeleteProductById", "db.DeleteProductById">>
      [] op = "DeleteAllProducts" -> <<"cache.ClearCache", "db.DeleteAllProducts">>
      [] op = "GetAllProducts" -> <<"db.GetAllProducts">>
      [] op = "GetProductsPaged" -> <<"db.GetProductsPaged">>

\* the functions the last request called, in call order
CalledFns == [i \in DOMAIN last.calls |-> last.calls[i].fn]

\* C32: the backend calls of a request are a non-empty initial part of its
\* operation's fixed sequence (Get: cache get, store get, cache set; Create:
\* store insert, cache set; Update and Delete: cache delete, store write;
\* DeleteAll: cache clear, store delete-all), so each call is made at most
\* once, a mutating operation makes at most two, and the store is never
\* written before the cache invalidation returned; a request stops short of
\* the whole sequence only on a cache hit or with a critical error.
C32_CallsFollowPipeline ==
    IsRequest
        => /\ CalledFns # <<>>
           /\ Len(CalledFns) <= Len(Pipeline(last.op))
           /\ CalledFns = SubSeq(Pipeline(last.op), 1, Len(CalledFns))
           /\ last.op \notin {"GetProductById", "GetAllProducts", "GetProductsPaged"}
                => Len(CalledFns) <= 2
           /\ Len(CalledFns) < Len(Pipeline(last.op))
                => \/ Critical(last.err) # Nil
                   \/ last.op = "GetProductById" /\ CacheServed

\* a DeleteAllProducts cleared the cache and then emptied a table with rows
C32_Witness ==
    /\ last.op = "DeleteAllProducts"
    /\ CalledFns = Pipeline("DeleteAllProducts")
    /\ last.pre.db # EmptyMap
    /\ db = EmptyMap

\* C34: an Update or Delete that failed with a critical error left the store
\* as it was; when the critical error is the cache's, the cache is as it was
\* too, and when it is the store's, the cache has lost the entry of the id
\* (the invalidation had succeeded or found no entry) and nothing else.
C34_FailedWriteFrame ==
    (IsInvalidating /\ Critical(last.err) # Nil)
        => /\ db = last.pre.db
           /\ seq = last.pre.seq
           /\ IF ErrorsIs(Critical(last.err), ErrInternalCache)
              THEN CalledFns = <<"cache.DeleteProductById">> /\ cache = last.pre.cache
              ELSE /\ CalledFns = <<"cache.DeleteProductById", StoreCallOf>>
                   /\ cache = Del(last.pre.cache, createKey(last.id))

\* the store's call failed after the cache entry of the id had been removed
C34_Witness ==
    /\ IsInvalidating
    /\ Critical(last.err) # Nil
    /\ ~ErrorsIs(Critical(last.err), ErrInternalCache)
    /\ InCacheBefore(last.id)
    /\ createKey(last.id) \notin DOMAIN cache
    /\ db = last.pre.db

\* C33: a GetProductById(id) that starts after a DeleteProductById(id) has
\* returned the deleted product (ids are never issued twice, so id is not
\* created again) returns no value and a critical error: not-found, or the
\* store's own failure.
C33_GetAfterDeleteFindsNothing ==
    \A r \in Requests :
        (reqs[r].op = "GetProductById" /\ reqs[r].pc = "done" /\ reqs[r].afterDelete)
            => /\ reqs[r].value = NilBytes
               /\ reqs[r].err # NilPtr
               /\ \/ ErrorsIs(Critical(reqs[r].err), ErrNotFound)
                  \/ ErrorsIs(Critical(reqs[r].err), ErrInternalDb)
\* C39: getNewRequestId never returns the same value twice: the request ids
\* the middleware has handed out are pairwise distinct, also when requests
\* are served concurrently.
C39_RequestIdsDistinct ==
    \A i, j \in DOMAIN logger.returned :
        i # j => logger.returned[i] # logger.returned[j]
\* an error of encoding/json, which json.Marshal returns for no domain.Product
json_UnsupportedValue == Errorf("json: unsupported value", "json.Marshal", 0)

\* the critical error of a result is none of its non-critical errors
ReportedOnce(err) ==
    \A i \in DOMAIN NonCritical(err) : NonCritical(err)[i] # Critical(err)

AllNonCritical(err) ==
    [CriticalError |-> Nil,
     NonCriticalErrors |-> Append(NonCritical(err), Critical(err))]

\* C36: the text of a result does not tell its critical error from its
\* non-critical ones: a result with critical error c and non-critical list L
\* renders as the result with no critical error and the list L followed by c.
C36_TextIgnoresCriticality ==
    (IsRequest /\ Critical(last.err) # Nil)
        => ServiceError_Error(Deref(last.err))
              = ServiceError_Error(AllNonCritical(last.err))

\* a GetProductById missed the cache and failed at the store: one error of
\* each kind is rendered
C36_Witness ==
    /\ last.op = "GetProductById"
    /\ Critical(last.err) # Nil
    /\ Len(NonCritical(last.err)) = 1
    /\ Len(ServiceError_Error(Deref(last.err))) > 3
\* what GetProductById returns for the id of the last request when it finds
\* nothing in the cache and no backend call fails: the store path's payload
StorePathPayload ==
    ResourseService_GetProductById([last.pre EXCEPT !.cache = EmptyMap],
                                   last.id, NoFaults).value

\* C38: the payload GetProductById returns on a cache hit (every entry was
\* written by the service, in CreateProduct or an earlier GetProductById) is
\* the payload the store path returns for the same product.
C38_CacheHitIsStorePayload ==
    (last.op = "GetProductById" /\ CacheServed)
        => /\ InStoreBefore(last.id)
           /\ last.value = StorePathPayload

\* a GetProductById was served from the cache
C38_Witness ==
    /\ last.op = "GetProductById"
    /\ CacheServed
    /\ last.err = NilPtr
    /\ last.value = json_Marshal(StoredBefore(last.id)).data
\* the status a handler writes when the service returned no critical error
OkStatus == IF http.handler = "CreateProduct" THEN 201 ELSE 200

\* the body a handler writes for the value the service returned
OkBody ==
    CASE http.handler = "GetProducts" -> json_EncodeProducts(last.value)
      [] http.handler = "CreateProduct" -> json_EncodeId(last.value)
      [] http.handler = "GetProductById" -> last.value
      [] http.handler \in {"UpdateProduct", "DeleteProduct"} ->
            json_EncodeProduct(last.value)
      [] http.handler = "DeleteAll" -> json_EncodeDeletedRows(last.value)

\* C37: the status and the body of a response are determined by the value
\* and the critical error the service returned: under a critical error they
\* are what the handler writes for that error alone, and otherwise the
\* success status and the encoding of the value, whether or not the result
\* holds non-critical errors.
C37_ResponseIgnoresNonCritical ==
    http.called
        => IF Critical(last.err) # Nil
           THEN LET w == WriteResponse(
                             NewServiceError(Critical(last.err), <<>>),
                             http.handler \in {"GetProductById", "UpdateProduct",
                                               "DeleteProduct"},
                             0, <<>>)
                IN  http.status = w.status /\ http.body = w.body
           ELSE http.status = OkStatus /\ http.body = OkBody

\* a request succeeded with a non-critical error on the way
C37_Witness ==
    /\ http.called
    /\ last.err # NilPtr
    /\ Critical(last.err) = Nil
    /\ http.status = OkStatus
    /\ http.logged # <<>>

====
